---- MODULE Spec2Model ----
(***************************************************************************)
(* GHES error recording of hw/acpi/ghes.c: the hardware_errors region in   *)
(* guest memory (error_block_address[], read_ack_register[], one raw data  *)
(* slot per error source), the CPER encoders, and the four record          *)
(* operations gated by the read_ack_register.                              *)
(*                                                                         *)
(* Guest memory is a function from physical address to byte that holds    *)
(* only the nonzero bytes: an address outside its domain reads 0.          *)
(* Integers wider than 31 bits are kept as little-endian byte sequences.   *)
(***************************************************************************)
EXTENDS Integers, Sequences, FiniteSets, TLC

VARIABLES
    last,     \* the call that ran last: operation, arguments, result, accesses
    steps,    \* number of operations run so far
    unacked,  \* history: slots written since the guest last acked their source
    dropped,  \* history: sources whose latest attempt was dropped, not acked since
    prev,     \* history: guest memory before the last operation
    dev,      \* the PCI device whose errors are recorded (its name)
    oob,      \* what this build holds in the bytes the code reads out of bounds
    thr,      \* record calls in progress, each at one of its region accesses
    blocks,   \* mhd_state->blocks: the shared block-ownership bytes
    hd,       \* the heads sharing blocks: each one's call in progress
    mhd,      \* mhd_state's header fields and the last mailbox command
    rasf,     \* the PCC scrub device: channel data, scrub_vals, interrupt
    mem       \* guest physical memory (nonzero bytes only)

vars == <<last, steps, unacked, dropped, prev, dev, oob, thr, blocks, hd, mhd, rasf, mem>>

(***************************************************************************)
(* Program constants.                                                      *)
(***************************************************************************)
ACPI_GHES_MAX_RAW_DATA_LENGTH == 1024
ACPI_GHES_ERROR_SOURCE_COUNT == 2
ACPI_GHES_DATA_LENGTH == 72
ACPI_GHES_MEM_CPER_LENGTH == 80
ACPI_GHES_PCIE_CPER_LENGTH == 208
ACPI_GEBS_UNCORRECTABLE == 1
ACPI_GHES_GESB_SIZE == 20
ACPI_CPER_SEV_RECOVERABLE == 0

\* include/hw/acpi/ghes.h (ACPI 6.x hardware error notification types and the
\* HEST source ids); error_source_to_index in ghes.c is laid out for these.
ACPI_GHES_NOTIFY_GPIO == 7
ACPI_GHES_NOTIFY_SEA == 8
ACPI_GHES_NOTIFY_RESERVED == 12
ACPI_HEST_SRC_ID_SEA == 0
ACPI_HEST_SRC_ID_GPIO == 1
ACPI_HEST_SRC_ID_RESERVED == 2

\* include/hw/cxl/cxl_component.h: dwords of the RAS header log.
CXL_RAS_ERR_HEADER_NUM == 32
\* include/hw/cxl/cxl_events.h: sizeof(CXLEventGenMedia) and
\* offsetof(CXLEventGenMedia, hdr.length).
SizeofCXLEventGenMedia == 128
OffsetofHdrLength == 16
\* include/hw/pci/pci.h: PCIE_CONFIG_SPACE_SIZE, the size of dev->config.
PCIE_CONFIG_SPACE_SIZE == 4096

\* ags->ghes_addr_le: where the firmware placed the hardware_errors blob.
ghes_addr_le == 65536

(***************************************************************************)
(* Bounds of the model.                                                    *)
(***************************************************************************)
MaxSteps == 3
MaxResolveSteps == 1

(***************************************************************************)
(* Bytes and little-endian integers.                                       *)
(***************************************************************************)
RECURSIVE LE(_, _)
\* build_append_int_noprefix(table, value, size): size bytes, low byte first.
LE(value, size) ==
    IF size = 0 THEN <<>> ELSE <<value % 256>> \o LE(value \div 256, size - 1)

Zeros(n) == [i \in 1..n |-> 0]

IsZero(bytes) == \A i \in 1..Len(bytes) : bytes[i] = 0

RECURSIVE LEValue(_)
\* The integer a short little-endian byte sequence encodes.
LEValue(bytes) ==
    IF bytes = <<>> THEN 0 ELSE bytes[1] + 256 * LEValue(Tail(bytes))

ByteAt(m, a) == IF a \in DOMAIN m THEN m[a] ELSE 0

\* The bytes m holds at addr .. addr + len - 1.
Load(m, addr, len) == [i \in 1..len |-> ByteAt(m, addr + i - 1)]

\* m with bytes stored at addr .. addr + Len(bytes) - 1.
Store(m, addr, bytes) ==
    LET n == Len(bytes)
        touched == addr .. (addr + n - 1)
        nz == {addr + j - 1 : j \in {k \in 1..n : bytes[k] # 0}}
    IN  [a \in (DOMAIN m \ touched) \cup nz |->
            IF a \in touched THEN bytes[a - addr + 1] ELSE m[a]]

\* cpu_physical_memory_read(addr, buf, len)
cpu_physical_memory_read(m, addr, len) == Load(m, addr, len)

\* cpu_physical_memory_write(addr, buf, len)
cpu_physical_memory_write(m, addr, bytes) == Store(m, addr, bytes)

Access(kind, addr, len) == [k |-> kind, a |-> addr, n |-> len]

(***************************************************************************)
(* Envelope encoders.                                                      *)
(***************************************************************************)
\* QemuUUID fru_id = {0}
NoFruId == Zeros(16)

\* The data entry without its FRU text: 52 bytes instead of 72.
acpi_ghes_generic_error_data_no_fru_text(section_type, error_severity, validation_bits, flags, error_data_length, fru_id, time_stamp) ==
    section_type
    \o LE(error_severity, 4)
    \o LE(768, 2)
    \o LE(validation_bits, 1)
    \o LE(flags, 1)
    \o LE(error_data_length, 4)
    \o fru_id
    \o LE(time_stamp, 8)

acpi_ghes_generic_error_data(section_type, error_severity, validation_bits, flags, error_data_length, fru_id, time_stamp) ==
    section_type
    \o LE(error_severity, 4)
    \o LE(768, 2)                    \* Revision 0x300
    \o LE(validation_bits, 1)
    \o LE(flags, 1)
    \o LE(error_data_length, 4)
    \o fru_id
    \o Zeros(20)                     \* fru_text
    \o LE(time_stamp, 8)

acpi_ghes_generic_error_status(block_status, raw_data_offset, raw_data_length, data_length, error_severity) ==
    LE(block_status, 4)
    \o LE(raw_data_offset, 4)
    \o LE(raw_data_length, 4)
    \o LE(data_length, 4)
    \o LE(error_severity, 4)

\* UUID_LE(0xA5BC1114, 0x6F64, 0x4EDE, 0xB8, 0x63, 0x3E, 0x83, 0xED, 0x7C,
\* 0x83, 0xB1); 0xA5BC1114 is written as its four bytes: it exceeds 31 bits.
uefi_cper_mem_sec ==
    <<20, 17, 188, 165>> \o LE(28516, 2) \o LE(20190, 2)
    \o <<184, 99, 62, 131, 237, 124, 131, 177>>

aer_section_id_le ==
    <<84, 233, 149, 217, 193, 187, 15, 67, 173, 145, 180, 77, 203, 60, 111, 53>>

cxl_gm_section_id_le ==
    <<119, 10, 205, 251, 96, 194, 127, 65, 133, 169, 8, 139, 22, 33, 235, 166>>

cxl_section_id_le ==
    <<180, 239, 185, 128, 181, 82, 227, 77, 167, 119, 104, 120, 75, 119, 16, 72>>

(***************************************************************************)
(* Payload encoders.                                                       *)
(***************************************************************************)
\* UEFI 2.6 N.2.5 Memory Error Section
\* Variant: the physical address in the field before its place.
mem_cper_addr_first(error_physical_addr) ==
    LE(16384 + 2, 8) \o LE(error_physical_addr, 8) \o LE(0, 8) \o Zeros(48)
    \o LE(0, 1) \o Zeros(7)

acpi_ghes_build_append_mem_cper(error_physical_addr) ==
    LE(16384 + 2, 8)                 \* (1 << 14) | (1 << 1)
    \o LE(0, 8)
    \o LE(error_physical_addr, 8)
    \o Zeros(48)
    \o LE(0, 1)
    \o Zeros(7)

(***************************************************************************)
(* PCI devices: the inputs of the PCIe and CXL encoders.  A device is its  *)
(* class ids, its address, the offsets the capability searches return (0   *)
(* when the capability is absent), its QOM type and its configuration      *)
(* space (nonzero bytes only).                                             *)
(***************************************************************************)
\* The CXL DVSEC header 1 at offset + 4: vendor 0x1e98, revision 0, length.
DvsecHeader1(len) == <<152, 30, (len % 16) * 16, len \div 16>>

Type3Dev ==
    [ name |-> "type3", objtype |-> "cxl-type3",
      vendor_id |-> 32902, device_id |-> 3475, class_id |-> 1282,
      subsystem_vendor_id |-> 6900, subsystem_id |-> 4352,
      devfn |-> 10, bus |-> 13,
      pcie_cap_offset |-> 128, sn_cap_offset |-> 256, aer_cap_offset |-> 512,
      dvsec0_offset |-> 268, dvsec3_offset |-> 0,
      ras |-> <<4096, 0, 61439, 1, 0, 512>>,
      config |->
        Store(Store(Store(Store(Store(Store(<<>>,
            4, LE(6, 2) \o LE(16, 2)),
            128, <<16, 0, 2, 0>>),
            256, <<3, 0, 1, 32>> \o LE(305419896, 4) \o LE(4660, 4)),
            268, <<35, 0, 1, 0>> \o DvsecHeader1(56) \o <<0, 0, 30, 0>>),
            512, <<1, 0, 2, 0>> \o LE(16, 4)),
            140, LE(66, 4)) ]

RootPort ==
    [ name |-> "rp", objtype |-> "cxl-rp",
      vendor_id |-> 32902, device_id |-> 28789, class_id |-> 1540,
      subsystem_vendor_id |-> 0, subsystem_id |-> 0,
      devfn |-> 0, bus |-> 12,
      pcie_cap_offset |-> 64, sn_cap_offset |-> 0, aer_cap_offset |-> 256,
      dvsec0_offset |-> 0, dvsec3_offset |-> 352,
      ras |-> <<0, 0, 0, 0, 0, 0>>,
      config |->
        Store(Store(Store(Store(<<>>,
            4, LE(7, 2) \o LE(16, 2)),
            64, <<16, 0, 66, 0>>),
            256, <<1, 0, 2, 0>> \o LE(32, 4)),
            352, <<35, 0, 1, 0>> \o DvsecHeader1(40) \o <<3, 0, 1, 0>>) ]

\* A conventional PCI function: no PCI Express, serial number or AER
\* capability and no CXL DVSEC.
PlainDev ==
    [ name |-> "plain", objtype |-> "pci",
      vendor_id |-> 4660, device_id |-> 22136, class_id |-> 512,
      subsystem_vendor_id |-> 6900, subsystem_id |-> 1,
      devfn |-> 27, bus |-> 1,
      pcie_cap_offset |-> 0, sn_cap_offset |-> 0, aer_cap_offset |-> 0,
      dvsec0_offset |-> 0, dvsec3_offset |-> 0,
      ras |-> <<0, 0, 0, 0, 0, 0>>,
      config |-> Store(<<>>, 4, LE(3, 2) \o LE(0, 2)) ]

\* A CXL downstream switch port whose port DVSEC header reports 0xfff, the
\* largest length the 12-bit field encodes.
BigPort ==
    [ name |-> "bigdsp", objtype |-> "cxl-downstream",
      vendor_id |-> 6629, device_id |-> 41258, class_id |-> 1540,
      subsystem_vendor_id |-> 0, subsystem_id |-> 0,
      devfn |-> 8, bus |-> 14,
      pcie_cap_offset |-> 64, sn_cap_offset |-> 0, aer_cap_offset |-> 0,
      dvsec0_offset |-> 0, dvsec3_offset |-> 256,
      ras |-> <<0, 0, 0, 0, 0, 0>>,
      config |->
        Store(Store(Store(<<>>,
            4, LE(7, 2) \o LE(16, 2)),
            64, <<16, 0, 98, 0>>),
            256, <<35, 0, 1, 0>> \o DvsecHeader1(4095) \o <<3, 0, 1, 0>>) ]

\* A CXL upstream switch port: PCI Express capability and port DVSEC.
UpstreamPort ==
    [ name |-> "usp", objtype |-> "cxl-upstream",
      vendor_id |-> 6629, device_id |-> 41257, class_id |-> 1540,
      subsystem_vendor_id |-> 0, subsystem_id |-> 0,
      devfn |-> 0, bus |-> 14,
      pcie_cap_offset |-> 64, sn_cap_offset |-> 0, aer_cap_offset |-> 0,
      dvsec0_offset |-> 0, dvsec3_offset |-> 256,
      ras |-> <<0, 0, 0, 0, 0, 0>>,
      config |->
        Store(Store(Store(<<>>,
            4, LE(7, 2) \o LE(16, 2)),
            64, <<16, 0, 82, 0>>),
            256, <<35, 0, 1, 0>> \o DvsecHeader1(40) \o <<3, 0, 1, 0>>) ]

Devices == {Type3Dev, RootPort, PlainDev, BigPort, UpstreamPort}
DeviceNames == {d.name : d \in Devices}
Device(name) == CHOOSE d \in Devices : d.name = name

\* A byte of dev->config; an offset past the array reads whatever the heap
\* holds there (heap).
ConfigByte(d, off, heap) ==
    IF off < PCIE_CONFIG_SPACE_SIZE THEN ByteAt(d.config, off) ELSE heap

ConfigBytes(d, off, len, heap) ==
    [i \in 1..len |-> ConfigByte(d, off + i - 1, heap)]

pci_get_word(d, off) == LEValue(ConfigBytes(d, off, 2, 0))

PCI_FUNC(devfn) == devfn % 8
PCI_SLOT(devfn) == (devfn \div 8) % 32

Bit(present, n) == IF present # 0 THEN 2 ^ n ELSE 0

\* The serial number dwords, or 8 zero bytes.
SerialNumber(d) ==
    IF d.sn_cap_offset # 0
    THEN ConfigBytes(d, d.sn_cap_offset + 4, 4, 0)
         \o ConfigBytes(d, d.sn_cap_offset + 8, 4, 0)
    ELSE Zeros(8)

\* The 60-byte PCI Express capability dump, or 60 zero bytes.
PcieCapDump(d) ==
    IF d.pcie_cap_offset # 0
    THEN ConfigBytes(d, d.pcie_cap_offset, 60, 0)
    ELSE Zeros(60)

build_append_aer_cper(d) ==
    LE(Bit(d.pcie_cap_offset, 0) + 2 + 4 + 8 + Bit(d.sn_cap_offset, 4)
       + Bit(d.pcie_cap_offset, 6) + Bit(d.aer_cap_offset, 7), 8)
    \o (IF d.pcie_cap_offset # 0
        THEN LE((pci_get_word(d, d.pcie_cap_offset + 2) % 256) \div 16, 4)
        ELSE <<>>)
    \o LE(1, 1) \o LE(6, 1) \o LE(0, 2)
    \o LE(pci_get_word(d, 4), 2)       \* PCI_COMMAND
    \o LE(pci_get_word(d, 6), 2)       \* PCI_STATUS
    \o LE(0, 4)
    \o LE(d.vendor_id, 2)
    \o LE(d.device_id, 2)
    \o LE(d.class_id, 3)
    \o LE(PCI_FUNC(d.devfn), 1)
    \o LE(PCI_SLOT(d.devfn), 1)
    \o LE(0, 2)
    \o LE(d.bus, 1)
    \o LE(0, 1)
    \o LE(0, 2)
    \o LE(0, 1)
    \o SerialNumber(d)
    \o LE(0, 4)
    \o PcieCapDump(d)
    \o (IF d.aer_cap_offset # 0
        THEN ConfigBytes(d, d.aer_cap_offset, 96, 0)
        ELSE Zeros(96))

\* gen: the SizeofCXLEventGenMedia bytes of a CXLEventGenMedia.
build_append_cxl_event_cper(d, gen) ==
    LE(144, 4)                           \* Length 0x90
    \o LE(1 + Bit(d.sn_cap_offset, 1) + 4, 8)
    \o LE(d.vendor_id, 2)
    \o LE(d.device_id, 2)
    \o LE(PCI_FUNC(d.devfn), 1)
    \o LE(PCI_SLOT(d.devfn), 1)
    \o LE(d.bus, 1)
    \o LE(0, 2)
    \o LE(0, 2)
    \o LE(0, 1)
    \o SerialNumber(d)
    \o SubSeq(gen, OffsetofHdrLength + 1, SizeofCXLEventGenMedia)

\* object_dynamic_cast chain: the CPER agent type of the device.
\* The switch-port codes the other way round.
AgentType_ports_swapped(d) ==
    CASE d.objtype = "cxl-type3" -> 2
      [] d.objtype = "cxl-upstream" -> 6
      [] d.objtype = "cxl-downstream" -> 7
      [] d.objtype = "cxl-rp" -> 5
      [] OTHER -> 255

AgentType(d) ==
    CASE d.objtype = "cxl-type3" -> 2
      [] d.objtype = "cxl-upstream" -> 7
      [] d.objtype = "cxl-downstream" -> 6
      [] d.objtype = "cxl-rp" -> 5
      [] OTHER -> 255

\* pcie_find_dvsec(dev, 0x1e98, 0), else pcie_find_dvsec(dev, 0x1e98, 3)
cxl_dvsec_offset(d) ==
    IF d.dvsec0_offset # 0 THEN d.dvsec0_offset ELSE d.dvsec3_offset

\* pci_get_long(dev->config + cxl_dvsec_offset + 4) >> 20, or 0
cxl_dvsec_len(d) ==
    IF cxl_dvsec_offset(d) # 0
    THEN LET dw == ConfigBytes(d, cxl_dvsec_offset(d) + 4, 4, 0)
         IN  (dw[3] \div 16) + 16 * dw[4]
    ELSE 0

\* for (i = 0; i < cxl_dvsec_len; i += 4) append pci_get_long(config + off + i)
DvsecDump(d, heap) ==
    ConfigBytes(d, cxl_dvsec_offset(d), 4 * ((cxl_dvsec_len(d) + 3) \div 4),
                heap)

RECURSIVE LEWords(_)
LEWords(ws) == IF ws = <<>> THEN <<>> ELSE LE(Head(ws), 4) \o LEWords(Tail(ws))

\* cxl_err: <<>> for NULL, else the CXL_RAS_ERR_HEADER_NUM header dwords.
build_append_cxl_cper(d, cxl_err, heap) ==
    LE(Bit(IF AgentType(d) # 255 THEN 1 ELSE 0, 0) + 2 + 4
       + Bit(d.sn_cap_offset, 3) + 16 + Bit(cxl_dvsec_offset(d), 5) + 64, 8)
    \o LE(AgentType(d), 1)
    \o LE(0, 7)
    \o LE(PCI_FUNC(d.devfn), 1)
    \o LE(PCI_SLOT(d.devfn), 1)
    \o LE(d.bus, 1)
    \o LE(0, 2)
    \o LE(0, 3)
    \o LE(d.vendor_id, 2)
    \o LE(d.device_id, 2)
    \o LE(d.subsystem_vendor_id, 2)
    \o LE(d.subsystem_id, 2)
    \o LE(d.class_id, 2)
    \o LE(0, 2)
    \o LE(0, 4)
    \o SerialNumber(d)
    \o PcieCapDump(d)
    \o LE(cxl_dvsec_len(d), 2)
    \o LE(24, 2)                         \* Error log length 0x18
    \o LE(0, 4)
    \o DvsecDump(d, heap)
    \o (IF d.objtype = "cxl-type3"
        THEN LEWords(d.ras)
             \o (IF cxl_err # <<>>
                 THEN LEWords(cxl_err)
                 ELSE Zeros(4 * CXL_RAS_ERR_HEADER_NUM))
        ELSE Zeros(24 + 512))

\* cxl_err: NULL (tag 0) or a CXLError whose header log holds 1..32 (tag 1).
CxlErrTags == {0, 1}
CxlErr(tag) == IF tag = 0 THEN <<>> ELSE [i \in 1..CXL_RAS_ERR_HEADER_NUM |-> i]

\* The byte a read past dev->config may find.
HeapBytes(d) ==
    IF cxl_dvsec_offset(d) + cxl_dvsec_len(d) > PCIE_CONFIG_SPACE_SIZE
    THEN {0, 90} ELSE {0}

\* The payloads build_append_cxl_cper produces for the devices and errors at
\* hand, computed once.
CxlCperTable ==
    [n \in DeviceNames |-> [t \in CxlErrTags |-> [h \in HeapBytes(Device(n)) |->
        build_append_cxl_cper(Device(n), CxlErr(t), h)]]]

AppendedCxlCper(d, cxl_err, heap) ==
    CxlCperTable[d.name][CHOOSE t \in CxlErrTags : CxlErr(t) = cxl_err][heap]

(***************************************************************************)
(* The hardware_errors region.                                             *)
(***************************************************************************)
Sources == 0 .. (ACPI_GHES_ERROR_SOURCE_COUNT - 1)

\* hardware_errors->len once the address entries and the ack registers are
\* appended: the offset of the first Generic Error Status Block.
error_status_block_offset ==
    ACPI_GHES_ERROR_SOURCE_COUNT * 8 + ACPI_GHES_ERROR_SOURCE_COUNT * 8

\* Variant: the ack registers left at 0.
build_ghes_error_table_unarmed ==
    Zeros(ACPI_GHES_ERROR_SOURCE_COUNT * 8 + ACPI_GHES_ERROR_SOURCE_COUNT * 8
          + ACPI_GHES_MAX_RAW_DATA_LENGTH * ACPI_GHES_ERROR_SOURCE_COUNT)

\* The blob build_ghes_error_table appends to hardware_errors.
build_ghes_error_table ==
    [i \in 1..(ACPI_GHES_ERROR_SOURCE_COUNT * 8) |-> 0]
    \o [i \in 1..(ACPI_GHES_ERROR_SOURCE_COUNT * 8) |-> IF i % 8 = 1 THEN 1 ELSE 0]
    \o Zeros(ACPI_GHES_MAX_RAW_DATA_LENGTH * ACPI_GHES_ERROR_SOURCE_COUNT)

\* bios_linker_loader_add_pointer for entry i: the file offset the firmware
\* adds the blob's address to.
LinkedOffset(i) == error_status_block_offset + i * ACPI_GHES_MAX_RAW_DATA_LENGTH

\* Guest memory once the firmware has placed the blob at ghes_addr_le and
\* patched the error_block_address entries.
LinkedRegion ==
    LET placed == Store(<<>>, ghes_addr_le, build_ghes_error_table)
        Patch[i \in 0..ACPI_GHES_ERROR_SOURCE_COUNT] ==
            IF i = 0 THEN placed
            ELSE Store(Patch[i - 1], ghes_addr_le + 8 * (i - 1),
                       LE(ghes_addr_le + LinkedOffset(i - 1), 8))
    IN  Patch[ACPI_GHES_ERROR_SOURCE_COUNT]

RegionSize == Len(build_ghes_error_table)

\* Where the layout puts source i's pieces.
AddrEntryAddr(i) == ghes_addr_le + 8 * i
AckRegAddr(i) == ghes_addr_le + 8 * ACPI_GHES_ERROR_SOURCE_COUNT + 8 * i
SlotAddr(i) == ghes_addr_le + LinkedOffset(i)

ghes_get_state_start_address == ghes_addr_le

\* The GHESv2 entry of the HEST for one source, once the firmware has patched
\* its two pointers: Error Status Address points at the source's
\* error_block_address entry, Read Ack Register at its ack register.
build_ghes_v2(source_id) ==
    [source_id |-> source_id,
     error_status_address |-> ghes_addr_le + source_id * 8,
     notify |-> IF source_id = ACPI_HEST_SRC_ID_SEA THEN ACPI_GHES_NOTIFY_SEA
                ELSE ACPI_GHES_NOTIFY_GPIO,
     read_ack_register |->
         ghes_addr_le + (ACPI_GHES_ERROR_SOURCE_COUNT + source_id) * 8]

acpi_build_hest ==
    {build_ghes_v2(ACPI_HEST_SRC_ID_SEA), build_ghes_v2(ACPI_HEST_SRC_ID_GPIO)}

(***************************************************************************)
(* Source resolution.                                                      *)
(***************************************************************************)
\* Variant: GPIO and SEA exchanged.
error_source_to_index_swapped == <<255, 255, 255, 255, 255, 255, 255, 0, 1>>

error_source_to_index == <<255, 255, 255, 255, 255, 255, 255, 1, 0>>

\* error_source_to_index[notify]; an index past the array reads the byte
\* that follows it in the image (rodata).
SourceIndex(notify, rodata) ==
    IF notify < Len(error_source_to_index)
    THEN error_source_to_index[notify + 1]
    ELSE rodata

\* Variant: the slots placed right behind the address array.
ghes_get_addr_packed(notify, rodata) ==
    [found |-> notify < ACPI_GHES_NOTIFY_RESERVED
               /\ SourceIndex(notify, rodata) # 255,
     tableread |-> notify < ACPI_GHES_NOTIFY_RESERVED,
     read_ack_register_addr |->
         ghes_get_state_start_address
         + ACPI_GHES_ERROR_SOURCE_COUNT * 8
         + SourceIndex(notify, rodata) * 8,
     error_block_addr |->
         ghes_get_state_start_address
         + ACPI_GHES_ERROR_SOURCE_COUNT * 8
         + SourceIndex(notify, rodata) * ACPI_GHES_MAX_RAW_DATA_LENGTH]

ghes_get_addr(notify, rodata) ==
    IF notify >= ACPI_GHES_NOTIFY_RESERVED
    THEN [found |-> FALSE, tableread |-> FALSE,
          error_block_addr |-> 0, read_ack_register_addr |-> 0]
    ELSE IF SourceIndex(notify, rodata) = 255
    THEN [found |-> FALSE, tableread |-> TRUE,
          error_block_addr |-> 0, read_ack_register_addr |-> 0]
    ELSE [found |-> TRUE, tableread |-> TRUE,
          read_ack_register_addr |->
              ghes_get_state_start_address
              + ACPI_GHES_ERROR_SOURCE_COUNT * 8
              + SourceIndex(notify, rodata) * 8,
          error_block_addr |->
              ghes_get_state_start_address
              + ACPI_GHES_ERROR_SOURCE_COUNT * 8
              + ACPI_GHES_ERROR_SOURCE_COUNT * 8
              + SourceIndex(notify, rodata) * ACPI_GHES_MAX_RAW_DATA_LENGTH]

(***************************************************************************)
(* The record functions.  Each returns [ret, mem, acc]: the C return       *)
(* value, guest memory afterwards and the guest memory accesses in order.  *)
(***************************************************************************)
Result(r, m, accesses) == [ret |-> r, mem |-> m, acc |-> accesses]

acpi_ghes_record_mem_error(m, error_block_address, error_physical_addr) ==
    LET data_length == ACPI_GHES_DATA_LENGTH + ACPI_GHES_MEM_CPER_LENGTH
        block ==
            acpi_ghes_generic_error_status(ACPI_GEBS_UNCORRECTABLE, 0, 0,
                                           data_length, ACPI_CPER_SEV_RECOVERABLE)
            \o acpi_ghes_generic_error_data(uefi_cper_mem_sec,
                   ACPI_CPER_SEV_RECOVERABLE, 0, 0, ACPI_GHES_MEM_CPER_LENGTH,
                   NoFruId, 0)
            \o acpi_ghes_build_append_mem_cper(error_physical_addr)
    IN  Result(0, cpu_physical_memory_write(m, error_block_address, block),
               <<Access("w", error_block_address, Len(block))>>)

\* The uint32_t read at error_block_address + 8 that the three notify-based
\* record functions start from.
CurrentDataLength(m, error_block_address) ==
    LEValue(cpu_physical_memory_read(m, error_block_address + 8, 4))

OutOfBoundary(data_length) ==
    data_length + ACPI_GHES_GESB_SIZE > ACPI_GHES_MAX_RAW_DATA_LENGTH

ghes_record_aer_error(m, d, error_block_address) ==
    LET data_length == CurrentDataLength(m, error_block_address)
                       + ACPI_GHES_DATA_LENGTH + ACPI_GHES_PCIE_CPER_LENGTH
        block ==
            acpi_ghes_generic_error_status(ACPI_GEBS_UNCORRECTABLE, 0, 0,
                                           data_length, ACPI_CPER_SEV_RECOVERABLE)
            \o acpi_ghes_generic_error_data(aer_section_id_le,
                   ACPI_CPER_SEV_RECOVERABLE, 0, 0, ACPI_GHES_PCIE_CPER_LENGTH,
                   NoFruId, 0)
            \o build_append_aer_cper(d)
        rd == <<Access("r", error_block_address + 8, 4)>>
    IN  IF OutOfBoundary(data_length)
        THEN Result(0, m, rd)                                \* return false
        ELSE Result(1, cpu_physical_memory_write(m, error_block_address, block),
                    rd \o <<Access("w", error_block_address, Len(block))>>)

ghes_record_cxl_gen_media(m, d, gem, error_block_address) ==
    LET event_length == 144
        data_length == CurrentDataLength(m, error_block_address)
                       + ACPI_GHES_DATA_LENGTH + event_length
        block ==
            acpi_ghes_generic_error_status(ACPI_GEBS_UNCORRECTABLE, 0, 0,
                                           data_length, ACPI_CPER_SEV_RECOVERABLE)
            \o acpi_ghes_generic_error_data(cxl_gm_section_id_le,
                   ACPI_CPER_SEV_RECOVERABLE, 0, 0, 144, NoFruId, 0)
            \o build_append_cxl_event_cper(d, gem)
        rd == <<Access("r", error_block_address + 8, 4)>>
    IN  IF OutOfBoundary(data_length)
        THEN Result(0, m, rd)                                \* return false
        ELSE Result(0, cpu_physical_memory_write(m, error_block_address, block),
                    rd \o <<Access("w", error_block_address, Len(block))>>)
                                                             \* return 0

ghes_record_cxl_error(m, d, cxl_err, heap, error_block_address) ==
    LET data_length == CurrentDataLength(m, error_block_address)
                       + ACPI_GHES_DATA_LENGTH + ACPI_GHES_PCIE_CPER_LENGTH
        block ==
            acpi_ghes_generic_error_status(ACPI_GEBS_UNCORRECTABLE, 0, 0,
                                           data_length, ACPI_CPER_SEV_RECOVERABLE)
            \o acpi_ghes_generic_error_data(cxl_section_id_le,
                   ACPI_CPER_SEV_RECOVERABLE, 0, 0, ACPI_GHES_PCIE_CPER_LENGTH,
                   NoFruId, 0)
            \o AppendedCxlCper(d, cxl_err, heap)
        rd == <<Access("r", error_block_address + 8, 4)>>
    IN  IF OutOfBoundary(data_length)
        THEN Result(0, m, rd)                                \* return false
        ELSE Result(1, cpu_physical_memory_write(m, error_block_address, block),
                    rd \o <<Access("w", error_block_address, Len(block))>>)

\* The gate the three notify-based record operations share line for line:
\* resolve the source, read the ack register into `int read_ack_register`
\* with an 8-byte access, and write 1 (not acknowledged) or 0 (go on) back
\* with an 8-byte access.  Only the int's four bytes take part in the test;
\* the other four bytes written out are the stack bytes behind the int.
\* Variant: the gate goes on whatever the ack register holds.
ReadAckGate_open(m, notify, rodata, stack) ==
    LET a == ghes_get_addr(notify, rodata)
        rw == <<Access("r", a.read_ack_register_addr, 8),
                Access("w", a.read_ack_register_addr, 8)>>
    IN  IF ~a.found
        THEN [go |-> FALSE, mem |-> m, acc |-> <<>>, error_block_addr |-> 0]
        ELSE [go |-> TRUE, acc |-> rw, error_block_addr |-> a.error_block_addr,
              mem |-> cpu_physical_memory_write(m, a.read_ack_register_addr,
                                                LE(0, 4) \o stack)]

ReadAckGate(m, notify, rodata, stack) ==
    LET a == ghes_get_addr(notify, rodata)
        reg == cpu_physical_memory_read(m, a.read_ack_register_addr, 8)
        read_ack_register == SubSeq(reg, 1, 4)
        rw == <<Access("r", a.read_ack_register_addr, 8),
                Access("w", a.read_ack_register_addr, 8)>>
    IN  IF ~a.found
        THEN [go |-> FALSE, mem |-> m, acc |-> <<>>, error_block_addr |-> 0]
        ELSE IF IsZero(read_ack_register)
        THEN [go |-> FALSE, acc |-> rw, error_block_addr |-> a.error_block_addr,
              mem |-> cpu_physical_memory_write(m, a.read_ack_register_addr,
                                                LE(1, 4) \o stack)]
        ELSE [go |-> TRUE, acc |-> rw, error_block_addr |-> a.error_block_addr,
              mem |-> cpu_physical_memory_write(m, a.read_ack_register_addr,
                                                LE(0, 4) \o stack)]

\* A C int returned through a bool function.
AsBool(v) == IF v # 0 THEN 1 ELSE 0

ghes_record_aer_errors(m, d, notify, rodata, stack) ==
    LET g == ReadAckGate(m, notify, rodata, stack)
        r == ghes_record_aer_error(g.mem, d, g.error_block_addr)
    IN  IF ~g.go THEN Result(0, g.mem, g.acc)
        ELSE Result(AsBool(r.ret), r.mem, g.acc \o r.acc)

ghes_record_cxl_event_gm(m, d, gem, notify, rodata, stack) ==
    LET g == ReadAckGate(m, notify, rodata, stack)
        r == ghes_record_cxl_gen_media(g.mem, d, gem, g.error_block_addr)
    IN  IF ~g.go THEN Result(0, g.mem, g.acc)
        ELSE Result(AsBool(r.ret), r.mem, g.acc \o r.acc)

ghes_record_cxl_errors(m, d, cxl_err, notify, rodata, stack, heap) ==
    LET g == ReadAckGate(m, notify, rodata, stack)
        r == ghes_record_cxl_error(g.mem, d, cxl_err, heap, g.error_block_addr)
    IN  IF ~g.go THEN Result(0, g.mem, g.acc)
        ELSE Result(AsBool(r.ret), r.mem, g.acc \o r.acc)

\* Variant: the ack register cleared before error_block_addr is looked at.
acpi_ghes_record_errors_clear_first(m, source_id, physical_address) ==
    LET start_addr == ghes_get_state_start_address + source_id * 8
        error_block_addr == LEValue(cpu_physical_memory_read(m, start_addr, 8))
        read_ack_register_addr == start_addr + ACPI_GHES_ERROR_SOURCE_COUNT * 8
        read_ack_register == cpu_physical_memory_read(m, read_ack_register_addr, 8)
        rd == <<Access("r", start_addr, 8), Access("r", read_ack_register_addr, 8)>>
        cleared == cpu_physical_memory_write(m, read_ack_register_addr, LE(0, 8))
        r == acpi_ghes_record_mem_error(cleared, error_block_addr, physical_address)
    IN  IF physical_address = 0 THEN Result(AsBool(-1), m, <<>>)
        ELSE IF IsZero(read_ack_register) THEN Result(AsBool(-1), m, rd)
        ELSE IF error_block_addr # 0
        THEN Result(AsBool(r.ret), r.mem,
                    rd \o <<Access("w", read_ack_register_addr, 8)>> \o r.acc)
        ELSE Result(AsBool(-1), cleared,
                    rd \o <<Access("w", read_ack_register_addr, 8)>>)

\* The memory operation, for source_id < ACPI_HEST_SRC_ID_RESERVED (the
\* assertion).  `bool ret = -1` holds 1, which is what the failure paths return.
acpi_ghes_record_errors(m, source_id, physical_address) ==
    LET start_addr == ghes_get_state_start_address
                      + (IF source_id < ACPI_HEST_SRC_ID_RESERVED
                         THEN source_id * 8 ELSE 0)
        error_block_addr == LEValue(cpu_physical_memory_read(m, start_addr, 8))
        read_ack_register_addr == start_addr + ACPI_GHES_ERROR_SOURCE_COUNT * 8
        read_ack_register == cpu_physical_memory_read(m, read_ack_register_addr, 8)
        rd == <<Access("r", start_addr, 8), Access("r", read_ack_register_addr, 8)>>
        cleared == cpu_physical_memory_write(m, read_ack_register_addr, LE(0, 8))
        r == acpi_ghes_record_mem_error(cleared, error_block_addr, physical_address)
    IN  IF physical_address = 0 THEN Result(AsBool(-1), m, <<>>)
        ELSE IF IsZero(read_ack_register) THEN Result(AsBool(-1), m, rd)
        ELSE IF error_block_addr # 0
        THEN Result(AsBool(r.ret), r.mem,
                    rd \o <<Access("w", read_ack_register_addr, 8)>> \o r.acc)
        ELSE Result(AsBool(-1), m, rd)

(***************************************************************************)
(* Inputs.                                                                 *)
(***************************************************************************)
SourceIds == 0 .. ACPI_HEST_SRC_ID_RESERVED
SupportedNotifies == {ACPI_GHES_NOTIFY_GPIO, ACPI_GHES_NOTIFY_SEA}
AllNotifies == 0 .. (ACPI_GHES_NOTIFY_RESERVED + 1)
PhysAddrs == {0, 4096, 1193046}

\* A general media event record: the record UUID, hdr.length, a handle and
\* the physical address field at offset 48.
GenMediaTags == {1}
GenMedia(tag) ==
    cxl_gm_section_id_le \o <<SizeofCXLEventGenMedia>> \o Zeros(3) \o LE(tag, 2)
    \o Zeros(26) \o LE(4096 * tag, 8) \o Zeros(SizeofCXLEventGenMedia - 56)

\* What the guest writes into an ack register: 1, a value whose low 32 bits
\* are zero, a value with bits set in both halves.
AckValues == {LE(1, 8), LE(0, 4) \o LE(1, 4), LE(1, 4) \o LE(1, 4)}

\* What a guest writes into the raw_data_length field of a status block.
RawDataLengths == {800}

\* Out-of-bounds reads.  The byte behind error_source_to_index and the stack
\* bytes behind `int read_ack_register` are fixed by the build; the byte
\* behind dev->config by the heap.  "residue": the four bytes the 8-byte read
\* of the ack register left behind the int are still there when the int is
\* written out; "other": the build keeps something else there.
RodataBytes == {255, 1, 2}
StackModes == {"residue", "other"}
StackBytes(m, notify) ==
    LET a == ghes_get_addr(notify, oob.rodata)
    IN  IF a.found /\ oob.stack = "residue"
        THEN SubSeq(cpu_physical_memory_read(m, a.read_ack_register_addr, 8), 5, 8)
        ELSE LE(165, 4)

(***************************************************************************)
(* The state machine.                                                      *)
(***************************************************************************)
Overlaps(a, n, b, k) == a < b + k /\ b < a + n

\* The slots a call wrote into.
SlotsWritten(acc) ==
    {i \in Sources : \E j \in 1..Len(acc) :
        /\ acc[j].k = "w"
        /\ Overlaps(acc[j].a, acc[j].n, SlotAddr(i), ACPI_GHES_MAX_RAW_DATA_LENGTH)}

\* The source a call is made on: the source id of the memory operation, the
\* source the HEST describes with this notification type otherwise.
SourceOf(op, arg) ==
    IF op = "mem" THEN arg
    ELSE IF arg = ACPI_GHES_NOTIFY_SEA THEN ACPI_HEST_SRC_ID_SEA
    ELSE IF arg = ACPI_GHES_NOTIFY_GPIO THEN ACPI_HEST_SRC_ID_GPIO
    ELSE ACPI_HEST_SRC_ID_RESERVED

\* An attempt on a source dropped for lack of acknowledgement: the source's
\* ack register was zero when the call started and the call, having touched
\* the region, wrote no slot.
DroppedForAck(op, arg, r) ==
    /\ SourceOf(op, arg) \in Sources
    /\ r.acc # <<>>
    /\ IsZero(Load(mem, AckRegAddr(SourceOf(op, arg)), 8))
    /\ SlotsWritten(r.acc) = {}

Call(op, arg, input, r, aborted) ==
    [op |-> op, arg |-> arg, input |-> input,
     ret |-> r.ret, abort |-> aborted, acc |-> r.acc,
     over |-> unacked \cap SlotsWritten(r.acc)]

Booted ==
    /\ mem = LinkedRegion
    /\ prev = LinkedRegion
    /\ last = [op |-> "boot", arg |-> 0, input |-> 0, ret |-> 0,
               abort |-> FALSE, acc |-> <<>>, over |-> {}]
    /\ steps = 0
    /\ unacked = {}
    /\ dropped = {}
    /\ blocks = <<>>
    /\ hd = <<>>
    /\ mhd = <<>>
    /\ rasf = <<>>
    /\ dev \in DeviceNames

\* The devices the call sequences of Spec run on.
SpecDeviceNames == {"type3", "rp", "plain", "bigdsp"}

Init ==
    /\ Booted
    /\ dev \in SpecDeviceNames
    /\ thr = <<>>
    /\ oob \in [rodata : {255}, stack : StackModes, heap : HeapBytes(Device(dev))]

Running == steps < MaxSteps /\ ~last.abort

Recorded(op, arg, input, r) ==
    /\ mem' = r.mem
    /\ prev' = mem
    /\ last' = Call(op, arg, input, r, FALSE)
    /\ steps' = steps + 1
    /\ unacked' = unacked \cup SlotsWritten(r.acc)
    /\ dropped' = IF DroppedForAck(op, arg, r)
                  THEN dropped \cup {SourceOf(op, arg)}
                  ELSE IF r.acc = <<>> THEN dropped
                  ELSE dropped \ {SourceOf(op, arg)}
    /\ UNCHANGED <<dev, oob, thr, blocks, hd, mhd, rasf>>

\* Variant: no assertion on source_id.
RecordMemError_unasserted ==
    /\ Running
    /\ \E source_id \in SourceIds, physical_address \in PhysAddrs :
        \E r \in {acpi_ghes_record_errors(mem, source_id, physical_address)} :
            Recorded("mem", source_id, physical_address, r)

RecordMemError ==
    /\ Running
    /\ \E source_id \in SourceIds, physical_address \in PhysAddrs :
        IF source_id < ACPI_HEST_SRC_ID_RESERVED
        THEN \E r \in {acpi_ghes_record_errors(mem, source_id, physical_address)} :
                 Recorded("mem", source_id, physical_address, r)
        ELSE \* assert(source_id < ACPI_HEST_SRC_ID_RESERVED) fails
             /\ last' = Call("mem", source_id, physical_address,
                             Result(0, mem, <<>>), TRUE)
             /\ steps' = steps + 1
             /\ prev' = mem
             /\ UNCHANGED <<mem, unacked, dropped, dev, oob, thr, blocks, hd, mhd, rasf>>

RecordAerError(Ns) ==
    /\ Running
    /\ \E notify \in Ns :
        \E r \in {ghes_record_aer_errors(mem, Device(dev), notify, oob.rodata,
                                         StackBytes(mem, notify))} :
            Recorded("aer", notify, 0, r)

RecordCxlEventGm(Ns) ==
    /\ Running
    /\ \E tag \in GenMediaTags, notify \in Ns :
        \E r \in {ghes_record_cxl_event_gm(mem, Device(dev), GenMedia(tag), notify,
                                           oob.rodata, StackBytes(mem, notify))} :
            Recorded("gm", notify, tag, r)

RecordCxlError(Ns) ==
    /\ Running
    /\ \E tag \in CxlErrTags, notify \in Ns :
        \E r \in {ghes_record_cxl_errors(mem, Device(dev), CxlErr(tag), notify,
                                         oob.rodata, StackBytes(mem, notify),
                                         oob.heap)} :
            Recorded("cxl", notify, tag, r)

\* The guest acknowledges source i: it writes a nonzero value into the
\* source's read_ack_register.
GuestAck ==
    /\ Running
    /\ \E i \in Sources, v \in AckValues :
        /\ mem' = Store(mem, AckRegAddr(i), v)
        /\ last' = Call("guest_ack", i, 0,
                        Result(0, mem, <<Access("w", AckRegAddr(i), 8)>>), FALSE)
        /\ unacked' = unacked \ {i}
        /\ dropped' = dropped \ {i}
    /\ steps' = steps + 1
    /\ prev' = mem
    /\ UNCHANGED <<dev, oob, thr, blocks, hd, mhd, rasf>>

\* The guest writes the raw_data_length field of slot i's status block.
GuestWriteSlot ==
    /\ Running
    /\ \E i \in Sources, v \in RawDataLengths :
        /\ mem' = Store(mem, SlotAddr(i) + 8, LE(v, 4))
        /\ last' = Call("guest_write", i, v,
                        Result(0, mem, <<Access("w", SlotAddr(i) + 8, 4)>>), FALSE)
    /\ steps' = steps + 1
    /\ prev' = mem
    /\ UNCHANGED <<unacked, dropped, dev, oob, thr, blocks, hd, mhd, rasf>>

Next ==
    \/ RecordMemError
    \/ RecordAerError(SupportedNotifies)
    \/ RecordCxlEventGm(SupportedNotifies)
    \/ RecordCxlError(SupportedNotifies)
    \/ GuestAck
    \/ GuestWriteSlot

Spec == Init /\ [][Next]_vars

\* Source resolution over every notification type, for each byte the build
\* may hold behind error_source_to_index.
InitResolve ==
    /\ Booted
    /\ thr = <<>>
    /\ oob \in [rodata : RodataBytes, stack : StackModes,
                heap : HeapBytes(Device(dev))]

NextResolve ==
    /\ steps < MaxResolveSteps
    /\ \/ RecordAerError(AllNotifies)
       \/ RecordCxlEventGm(AllNotifies)
       \/ RecordCxlError(AllNotifies)

SpecResolve == InitResolve /\ [][NextResolve]_vars

\* ---------------------------------------------------------------------------
\* The memory operation on a region whose error_block_address entries the
\* guest, which owns the memory, may have overwritten.
\* ---------------------------------------------------------------------------
EntryValues == {0}

\* The guest writes the error_block_address entry of source i.
GuestWriteEntry ==
    /\ Running
    /\ \E i \in Sources, v \in EntryValues :
        /\ mem' = Store(mem, AddrEntryAddr(i), LE(v, 8))
        /\ last' = Call("guest_entry", i, v,
                        Result(0, mem, <<Access("w", AddrEntryAddr(i), 8)>>), FALSE)
    /\ steps' = steps + 1
    /\ prev' = mem
    /\ UNCHANGED <<unacked, dropped, dev, oob, thr, blocks, hd, mhd, rasf>>

NextEntry ==
    \/ RecordMemError
    \/ GuestAck
    \/ GuestWriteEntry

SpecEntry == Init /\ [][NextEntry]_vars

\* ---------------------------------------------------------------------------
\* Two record calls on one source, taken one region access at a time.  The
\* code holds no lock and uses no atomic operation between the read of the
\* ack register and the write that follows it; each call keeps what it read
\* in its own locals (reg, addr) until its next access.
\* ---------------------------------------------------------------------------
Callers == {1, 2}
CallerOps == {"ghes_record_aer_errors", "acpi_ghes_record_errors"}
CallerPhysAddr == 4096

NotifyOf(source) == IF source = 0 THEN ACPI_GHES_NOTIFY_SEA ELSE ACPI_GHES_NOTIFY_GPIO

\* The locals of a call that has not yet touched the region.
Entered(op, source) ==
    [op |-> op, source |-> source, pc |-> "read_ack", reg |-> <<>>,
     addr |-> 0, wrote |-> FALSE]

\* What sits behind the int read_ack_register of this call when its 8-byte
\* write goes out: the upper half of its own 8-byte read, or something else.
CallerStack(t) == IF oob.stack = "residue" THEN SubSeq(t.reg, 5, 8) ELSE LE(165, 4)

InitInterleave ==
    /\ Booted
    /\ oob \in [rodata : {255}, stack : StackModes, heap : HeapBytes(Device(dev))]
    /\ \E source \in Sources :
           thr \in [Callers -> {Entered(op, source) : op \in CallerOps}]

\* cpu_physical_memory_read of the ack register (and, in the memory-error
\* call, of the address entry before it), then the test of what was read.
GateRead(p) ==
    LET t == thr[p]
        a == ghes_get_addr(NotifyOf(t.source), oob.rodata)
        start_addr == ghes_get_state_start_address + t.source * 8
        reg == cpu_physical_memory_read(mem, AckRegAddr(t.source), 8)
        aer == t.op = "ghes_record_aer_errors"
        addr == IF aer THEN a.error_block_addr
                ELSE LEValue(cpu_physical_memory_read(mem, start_addr, 8))
    IN  /\ t.pc = "read_ack"
        /\ thr' = [thr EXCEPT ![p] = [t EXCEPT !.reg = reg, !.addr = addr,
                      !.pc = IF aer
                             THEN IF IsZero(SubSeq(reg, 1, 4)) THEN "rearm" ELSE "clear"
                             ELSE IF IsZero(reg) \/ addr = 0 THEN "done" ELSE "clear"]]
        /\ UNCHANGED <<last, steps, unacked, dropped, prev, dev, oob, blocks, hd, mhd, rasf, mem>>

\* cpu_physical_memory_write of the ack register: 1 on the dropped path of
\* the notify-based call, 0 on the way to the record.
GateWrite(p) ==
    LET t == thr[p]
        aer == t.op = "ghes_record_aer_errors"
        value == IF t.pc = "rearm" THEN LE(1, 4) \o CallerStack(t)
                 ELSE IF aer THEN LE(0, 4) \o CallerStack(t)
                 ELSE LE(0, 8)
    IN  /\ t.pc \in {"rearm", "clear"}
        /\ mem' = cpu_physical_memory_write(mem, AckRegAddr(t.source), value)
        /\ thr' = [thr EXCEPT ![p] = [t EXCEPT
                      !.pc = IF t.pc = "rearm" THEN "done" ELSE "record"]]
        /\ UNCHANGED <<last, steps, unacked, dropped, prev, dev, oob, blocks, hd, mhd, rasf>>

\* The record function the call reaches once past the gate.
SlotWrite(p) ==
    LET t == thr[p]
        r == IF t.op = "ghes_record_aer_errors"
             THEN ghes_record_aer_error(mem, Device(dev), t.addr)
             ELSE acpi_ghes_record_mem_error(mem, t.addr, CallerPhysAddr)
    IN  /\ t.pc = "record"
        /\ mem' = r.mem
        /\ thr' = [thr EXCEPT ![p] = [t EXCEPT !.pc = "done",
                      !.wrote = SlotsWritten(r.acc) # {}]]
        /\ UNCHANGED <<last, steps, unacked, dropped, prev, dev, oob, blocks, hd, mhd, rasf>>

NextInterleave ==
    \E p \in Callers :
        \/ GateRead(p)
        \/ GateWrite(p)
        \/ SlotWrite(p)

SpecInterleave == InitInterleave /\ [][NextInterleave]_vars

(***************************************************************************)
(* The multi-headed device: block ownership in shared memory.  Each head  *)
(* is an emulator process of its own; the heads run their calls one       *)
(* access to mhd_state->blocks at a time, in any interleaving.            *)
(***************************************************************************)
ghes_vars == <<last, steps, unacked, dropped, prev, dev, oob, thr, mem>>

MaxCalls == 3
Heads == {0, 1}
NrBlocks == 2
\* Bytes of the mapping behind blocks[nr_blocks]: the file is nr_blocks +
\* MHSLD_HEADER_SZ long and its header takes 24 bytes.
SlackBytes == 1
BlockIndexes == 0 .. (NrBlocks + SlackBytes - 1)

\* CXLDCRegion: base and block_size.
region == [base |-> 0, block_size |-> 4]

HeadBit(h) == 2 ^ h
HasBit(byte, h) == (byte \div HeadBit(h)) % 2 = 1
\* byte & ~(1u << h)
AndNot(byte, h) == IF HasBit(byte, h) THEN byte - HeadBit(h) ELSE byte

\* Extents of whole blocks inside the region, and the record lists of an
\* add-capacity command.
Extents ==
    {[offset |-> sc[1] * region.block_size, len |-> sc[2] * region.block_size] :
         sc \in {x \in (0..(NrBlocks - 1)) \X (1..NrBlocks) : x[1] + x[2] <= NrBlocks}}
Disjoint(e, f) == e.offset + e.len <= f.offset \/ f.offset + f.len <= e.offset
ExtentLists ==
    {<<e>> : e \in Extents}
    \cup {<<ef[1], ef[2]>> : ef \in {x \in Extents \X Extents : Disjoint(x[1], x[2])}}

block_start(e) == (e.offset + region.base) \div region.block_size
block_count(e) == e.len \div region.block_size

\* A head with no call made yet.
IdleHead ==
    [op |-> "none", arg |-> <<>>, pc |-> "idle", k |-> 0, r |-> 0, i |-> 0,
     tmp |-> 0, ret |-> -1, set_ret |-> -1, ops |-> 0, owned |-> {},
     before |-> <<>>, conc |-> FALSE]

InitMhsld ==
    /\ last = [op |-> "boot", arg |-> 0, input |-> 0, ret |-> 0,
               abort |-> FALSE, acc |-> <<>>, over |-> {}]
    /\ steps = 0
    /\ unacked = {}
    /\ dropped = {}
    /\ prev = <<>>
    /\ mem = <<>>
    /\ thr = <<>>
    /\ dev = "type3"
    /\ oob = [rodata |-> 255, stack |-> "residue", heap |-> 0]
    /\ blocks = [n \in BlockIndexes |-> 0]        \* memset(s->mhd_state, 0, ...)
    /\ hd = [h \in Heads |-> IdleHead]
    /\ mhd = <<>>
    /\ rasf = <<>>

\* One step of head h: its own locals change to t, blocks to b; the other
\* heads learn that blocks changed under them.
HeadStep(h, t, b) ==
    /\ blocks' = b
    /\ hd' = [q \in Heads |->
                 IF q = h THEN t
                 ELSE IF b # blocks
                 THEN [hd[q] EXCEPT !.conc = TRUE]
                 ELSE hd[q]]
    /\ UNCHANGED <<ghes_vars, mhd, rasf>>

\* Entry into a call: the locals of the call.
Called(h, op, arg, pc) ==
    [hd[h] EXCEPT !.op = op, !.arg = arg, !.pc = pc, !.k = 1, !.r = 0, !.i = 0,
                  !.tmp = 0, !.ret = -1, !.set_ret = -1, !.ops = @ + 1,
                  !.before = blocks, !.conc = FALSE]

\* Calls made so far by all heads.
RECURSIVE CallsMade(_)
CallsMade(H) ==
    IF H = {} THEN 0
    ELSE LET h == CHOOSE x \in H : TRUE IN hd[h].ops + CallsMade(H \ {h})

CanCall(h) == hd[h].pc = "idle" /\ CallsMade(Heads) < MaxCalls

\* cxl_mhsld_reserve_extents_in_region(pci_dev, records, region)
CallReserve(h) ==
    /\ CanCall(h)
    /\ \E records \in ExtentLists :
           HeadStep(h, Called(h, "reserve", records, "set_cas"), blocks)

\* cxl_mhsld_release_extent_in_region(pci_dev, region, dpa, len)
CallRelease(h) ==
    /\ CanCall(h)
    /\ \E e \in Extents : HeadStep(h, Called(h, "release", <<e>>, "clr"), blocks)

\* cxl_mhsld_test_extent_block_backed(pci_dev, region, dpa, len)
CallTest(h) ==
    /\ CanCall(h)
    /\ \E e \in Extents : HeadStep(h, Called(h, "test", <<e>>, "tst"), blocks)

\* cxl_mhsld_reset(d)
CallReset(h) ==
    /\ CanCall(h)
    /\ HeadStep(h, Called(h, "reset", <<>>, "rst_read"), blocks)

\* Variant: the claim as an unconditional __sync_fetch_and_or.
SetCas_fetch_and_or(h) ==
    LET t == hd[h]
        e == t.arg[t.k]
        n == block_start(e) + t.i
    IN  /\ t.pc = "set_cas"
        /\ HeadStep(h,
               [t EXCEPT !.owned = @ \cup {n},
                         !.i = @ + 1,
                         !.pc = IF t.i + 1 = block_count(e)
                                THEN "set_done" ELSE "set_cas",
                         !.set_ret = IF t.i + 1 = block_count(e) THEN 1 ELSE -1],
               [blocks EXCEPT ![n] = IF HasBit(@, h) THEN @ ELSE @ + HeadBit(h)])

\* cxl_mhsld_state_set, claim loop: one __sync_val_compare_and_swap.
SetCas(h) ==
    LET t == hd[h]
        e == t.arg[t.k]
        n == block_start(e) + t.i
        prv == blocks[n]
    IN  /\ t.pc = "set_cas"
        /\ IF prv # 0
           THEN HeadStep(h, [t EXCEPT !.pc = "set_rb"], blocks)
           ELSE HeadStep(h,
                    [t EXCEPT !.owned = @ \cup {n},
                              !.i = @ + 1,
                              !.pc = IF t.i + 1 = block_count(e)
                                     THEN "set_done" ELSE "set_cas",
                              !.set_ret = IF t.i + 1 = block_count(e)
                                          THEN 1 ELSE -1],
                    [blocks EXCEPT ![n] = HeadBit(h)])

\* cxl_mhsld_state_set, roll-back loop for (;; --i): one
\* __sync_fetch_and_and, starting at the block whose claim failed.
SetRollback(h) ==
    LET t == hd[h]
        e == t.arg[t.k]
        n == block_start(e) + t.i
    IN  /\ t.pc = "set_rb"
        /\ HeadStep(h,
               [t EXCEPT !.owned = @ \ {n},
                         !.i = IF t.i = 0 THEN 0 ELSE t.i - 1,
                         !.pc = IF t.i = 0 THEN "set_done" ELSE "set_rb",
                         !.set_ret = IF t.i = 0 THEN 0 ELSE -1],
               [blocks EXCEPT ![n] = AndNot(blocks[n], h)])

\* cxl_mhsld_reserve_extents_in_region on the return of cxl_mhsld_state_set:
\* the next record, the end of the list, or rollback = records.
SetReturn(h) ==
    LET t == hd[h]
    IN  /\ t.pc = "set_done"
        /\ IF t.set_ret = 0
           THEN HeadStep(h, [t EXCEPT !.pc = "rsv_clr", !.r = 1, !.i = 0], blocks)
           ELSE IF t.k = Len(t.arg)
           THEN HeadStep(h, [t EXCEPT !.pc = "idle", !.ret = 1], blocks)
           ELSE HeadStep(h, [t EXCEPT !.pc = "set_cas", !.k = @ + 1, !.i = 0,
                                      !.set_ret = -1], blocks)

\* cxl_mhsld_reserve_extents_in_region, roll-back loop: one
\* __sync_fetch_and_and of cxl_mhsld_state_clear, called with the length of
\* record `rollback` and the offset of record `list`.
ReserveRollback(h) ==
    LET t == hd[h]
        len == t.arg[t.r].len
        dpa == t.arg[t.k].offset + region.base
        n == dpa \div region.block_size + t.i
        last_block == t.i + 1 = len \div region.block_size
    IN  /\ t.pc = "rsv_clr"
        /\ HeadStep(h,
               [t EXCEPT !.owned = @ \ {n},
                         !.i = IF last_block THEN 0 ELSE t.i + 1,
                         !.r = IF last_block /\ t.r # t.k THEN t.r + 1 ELSE t.r,
                         !.pc = IF last_block /\ t.r = t.k THEN "idle" ELSE "rsv_clr",
                         !.ret = IF last_block /\ t.r = t.k THEN 0 ELSE -1],
               [blocks EXCEPT ![n] = AndNot(blocks[n], h)])

\* cxl_mhsld_state_clear as called by cxl_mhsld_release_extent_in_region:
\* one __sync_fetch_and_and.
StateClear(h) ==
    LET t == hd[h]
        e == t.arg[1]
        n == block_start(e) + t.i
        last_block == t.i + 1 = block_count(e)
    IN  /\ t.pc = "clr"
        /\ HeadStep(h,
               [t EXCEPT !.owned = @ \ {n},
                         !.i = t.i + 1,
                         !.pc = IF last_block THEN "idle" ELSE "clr",
                         !.ret = IF last_block THEN 1 ELSE -1],
               [blocks EXCEPT ![n] = AndNot(blocks[n], h)])

\* cxl_mhsld_test_extent_block_backed: one read of blocks[dpa + i].
TestBlock(h) ==
    LET t == hd[h]
        e == t.arg[1]
        n == block_start(e) + t.i
        last_block == t.i + 1 = block_count(e)
    IN  /\ t.pc = "tst"
        /\ IF blocks[n] # HeadBit(h)
           THEN HeadStep(h, [t EXCEPT !.pc = "idle", !.ret = 0], blocks)
           ELSE HeadStep(h, [t EXCEPT !.i = t.i + 1,
                                      !.pc = IF last_block THEN "idle" ELSE "tst",
                                      !.ret = IF last_block THEN 1 ELSE -1],
                         blocks)

\* cxl_mhsld_reset, blocks[i] &= ~(1 << s->mhd_head): the load of the plain
\* read-modify-write.
ResetLoad(h) ==
    LET t == hd[h]
    IN  /\ t.pc = "rst_read"
        /\ HeadStep(h, [t EXCEPT !.tmp = blocks[t.i], !.pc = "rst_write"], blocks)

\* cxl_mhsld_reset: the store of the plain read-modify-write.
ResetStore(h) ==
    LET t == hd[h]
        last_block == t.i + 1 = NrBlocks
    IN  /\ t.pc = "rst_write"
        /\ HeadStep(h,
               [t EXCEPT !.owned = @ \ {t.i},
                         !.i = t.i + 1,
                         !.pc = IF last_block THEN "idle" ELSE "rst_read",
                         !.ret = IF last_block THEN 1 ELSE -1],
               [blocks EXCEPT ![t.i] = AndNot(t.tmp, h)])

NextMhsld ==
    \E h \in Heads :
        \/ CallReserve(h)
        \/ CallRelease(h)
        \/ CallTest(h)
        \/ CallReset(h)
        \/ SetCas(h)
        \/ SetRollback(h)
        \/ SetReturn(h)
        \/ ReserveRollback(h)
        \/ StateClear(h)
        \/ TestBlock(h)
        \/ ResetLoad(h)
        \/ ResetStore(h)

SpecMhsld == InitMhsld /\ [][NextMhsld]_vars

(***************************************************************************)
(* The multi-headed device: Get Multi-Headed Info.  mhd holds the header   *)
(* of the shared state, the mailbox output buffer, and the last command's  *)
(* input, return code and the map entries it read.                         *)
(***************************************************************************)
MHSLD_HEADS == 8

\* sizeof(MHDGetInfoOutput): the fields before the flexible ldmap[].
MHDGetInfoOutputSize == 8

\* The zero-filled state file and the mailbox payload before any command.
InitMhdInfo ==
    /\ last = [op |-> "boot", arg |-> 0, input |-> 0, ret |-> 0,
               abort |-> FALSE, acc |-> <<>>, over |-> {}]
    /\ steps = 0
    /\ unacked = {}
    /\ dropped = {}
    /\ prev = <<>>
    /\ mem = <<>>
    /\ thr = <<>>
    /\ dev = "type3"
    /\ oob = [rodata |-> 255, stack |-> "residue", heap |-> 0]
    /\ blocks = <<>>
    /\ hd = <<>>
    /\ rasf = <<>>
    /\ mhd = [nr_heads |-> 0, nr_lds |-> 0,
              ldmap |-> [n \in (0 .. (MHSLD_HEADS - 1)) |-> 0],
              realized |-> {},
              op |-> "none", start_ld |-> 0, ldmap_len |-> 0,
              ret |-> "none", reads |-> {},
              out |-> [nr_lds |-> 0, nr_heads |-> 0, resv1 |-> 0,
                       start_ld |-> 0, ldmap_len |-> 0, resv2 |-> 0,
                       ldmap |-> [n \in (0 .. (MHSLD_HEADS - 1)) |-> 0]],
              len_out |-> 0,
              out_before |-> <<>>, len_before |-> 0]

\* cxl_mhsld_realize: a head id of MHSLD_HEADS or more fails; an
\* initializing head clears the state and sets the counts; every head
\* writes its own map entry.
cxl_mhsld_realize(head, mhd_init) ==
    /\ head \notin mhd.realized
    /\ mhd' = IF head >= MHSLD_HEADS
              THEN [mhd EXCEPT !.op = "realize", !.ret = "error",
                               !.realized = @ \cup {head}]
              ELSE LET cleared == [n \in (0 .. (MHSLD_HEADS - 1)) |-> 0]
                       map == IF mhd_init THEN cleared ELSE mhd.ldmap
                   IN  [mhd EXCEPT
                           !.op = "realize", !.ret = "ok",
                           !.realized = @ \cup {head},
                           !.nr_heads = IF mhd_init THEN MHSLD_HEADS ELSE @,
                           !.nr_lds = IF mhd_init THEN MHSLD_HEADS ELSE @,
                           !.ldmap = [map EXCEPT ![head] = head]]
    /\ UNCHANGED <<ghes_vars, blocks, hd, rasf>>

\* The loop of the command: the number of entries copied, counted in a
\* uint8_t.
RECURSIVE CopiedEntries(_, _, _, _)
CopiedEntries(i, start_ld, ldmap_len, nr_lds) ==
    IF i < ldmap_len /\ (start_ld + i) < nr_lds
    THEN CopiedEntries((i + 1) % 256, start_ld, ldmap_len, nr_lds)
    ELSE i

\* The map entry the loop copies to output->ldmap[i].
MapEntryRead_ignoring_start(start_ld, i) == i

MapEntryRead(start_ld, i) == start_ld + i

cmd_mhd_get_info(start_ld, ldmap_len) ==
    /\ mhd.realized # {}
    /\ mhd' =
         IF start_ld >= mhd.nr_lds
         THEN [mhd EXCEPT !.op = "get_info", !.start_ld = start_ld,
                          !.ldmap_len = ldmap_len,
                          !.ret = "CXL_MBOX_INVALID_INPUT", !.reads = {},
                          !.out_before = mhd.out, !.len_before = mhd.len_out]
         ELSE LET n == CopiedEntries(0, start_ld, ldmap_len, mhd.nr_lds)
                  copied == 0 .. (n - 1)
                  reads == {MapEntryRead(start_ld, i) : i \in copied}
              IN  [mhd EXCEPT
                      !.op = "get_info", !.start_ld = start_ld,
                      !.ldmap_len = ldmap_len,
                      !.ret = "CXL_MBOX_SUCCESS", !.reads = reads,
                      !.out_before = mhd.out, !.len_before = mhd.len_out,
                      !.out = [nr_lds |-> mhd.nr_lds,
                               nr_heads |-> mhd.nr_heads,
                               resv1 |-> 0, start_ld |-> start_ld,
                               ldmap_len |-> n, resv2 |-> 0,
                               ldmap |-> [i \in (0 .. (MHSLD_HEADS - 1)) |->
                                   IF i \in copied
                                   THEN mhd.ldmap[MapEntryRead(start_ld, i)]
                                   ELSE mhd.out.ldmap[i]]],
                      !.len_out = MHDGetInfoOutputSize + n]
    /\ UNCHANGED <<ghes_vars, blocks, hd, rasf>>

\* Heads are started with mhd-head 0, 1 or 8; a host puts any of a few
\* start_ld and ldmap_len bytes in the command.
NextMhdInfo ==
    \/ \E head \in {0, 1, 8}, mhd_init \in BOOLEAN :
           cxl_mhsld_realize(head, mhd_init)
    \/ \E start_ld \in {0, 1, 7, 8, 255}, ldmap_len \in {0, 1, 2, 8, 255} :
           cmd_mhd_get_info(start_ld, ldmap_len)

SpecMhdInfo == InitMhdInfo /\ [][NextMhdInfo]_vars

(***************************************************************************)
(* The PCC scrub device (rasf.c).  rasf holds the build (RASF or RAS2),    *)
(* the channel data the guest shares with the device, scrub_vals, the      *)
(* number of interrupt pulses, and the history the properties speak of.    *)
(* Field values stay below 2^31, so a write of 4 or 8 bytes keeps them.    *)
(***************************************************************************)
MaxDoorbells == 3

RASF_PCC_DOORBELL_OFFSET == 2048
RASF_PCC_INT_ACK_OFFSET == 2056
RASF_CMD_EXECUTE == 1
RASF_RAS_CAP_STAT_SUCCESS == 0
RASF_RAS_CAP_STAT_INVALID_DATA == 6
RASF_TYPE_PATROL_SCRUB == 0
RASF_PATROL_SCRUB_CMD_GET_PARAMS == 1
RASF_PATROL_SCRUB_CMD_START == 2
RASF_PATROL_SCRUB_CMD_STOP == 3

\* sizeof(s->data.ras_pb) and sizeof(s->data) of the packed structures.
PbSize(ras2) == IF ras2 THEN 52 ELSE 43
DataSize(ras2) == 48 + PbSize(ras2)

\* The bits of set_ras_caps[0] the build accepts.
ScrubCaps(ras2) == IF ras2 THEN {1} ELSE {1, 2, 3}

\* The field of PccRasfData a write of size bytes at offset lands on.
FieldAt(offset, size, ras2) ==
    CASE offset = 4 /\ size = 2 -> "command"
      [] offset = 6 /\ size = 2 -> "status"
      [] offset = 26 /\ size = 1 -> "set_ras_caps0"
      [] offset = 48 /\ size = 2 -> "pb_type"
      [] offset = 52 /\ size = 2 -> "pb_length"
      [] offset = 54 /\ size = 2 -> "pb_cmd"
      [] offset = 56 /\ size = 8 -> "in_addr_base"
      [] offset = 96 /\ size = 4 /\ ras2 -> "in_scrub_params"
      [] offset = 90 /\ size = 1 /\ ~ras2 -> "in_speed"
      [] OTHER -> "none"

\* rasf_realize.
RealizedData(ras2) ==
    [sig |-> (IF ras2 THEN "RAS2" ELSE "RASF"), command |-> 0, status |-> 1,
     ras_caps0 |-> (IF ras2 THEN 1 ELSE 3), set_ras_caps0 |-> 0,
     num_param_blocks |-> 1, set_ras_cap_stat |-> 0,
     pb_type |-> 0, pb_length |-> 43, pb_cmd |-> 0,
     in_addr_base |-> 0, in_addr_size |-> 0,
     out_addr_base |-> 0, out_addr_size |-> 0, out_flags |-> 0,
     out_scrub_params |-> 0, in_scrub_params |-> 0, in_speed |-> 0]

RealizedScrubVals(ras2) ==
    [base |-> 1048576, size |-> 2097152,
     flags |-> IF ras2 THEN 0 ELSE 15,
     min_scrub_rate |-> IF ras2 THEN 1 ELSE 0,
     max_scrub_rate |-> IF ras2 THEN 24 ELSE 0,
     cur_scrub_rate |-> IF ras2 THEN 10 ELSE 0,
     en_background_patrol_scrub |-> 0]

InitRasf ==
    /\ last = [op |-> "boot", arg |-> 0, input |-> 0, ret |-> 0,
               abort |-> FALSE, acc |-> <<>>, over |-> {}]
    /\ steps = 0
    /\ unacked = {}
    /\ dropped = {}
    /\ prev = <<>>
    /\ mem = <<>>
    /\ thr = <<>>
    /\ dev = "type3"
    /\ oob = [rodata |-> 255, stack |-> "residue", heap |-> 0]
    /\ blocks = <<>>
    /\ hd = <<>>
    /\ mhd = <<>>
    /\ \E ras2 \in BOOLEAN :
           rasf = [ras2 |-> ras2,
                   data |-> RealizedData(ras2),
                   scrub_vals |-> RealizedScrubVals(ras2),
                   irq_pulses |-> 0,
                   bells |-> 0,
                   op |-> "realize",
                   before |-> <<>>,
                   started |-> <<>>,
                   stopped |-> FALSE]

\* The hammered fields of rasf_doorbell, written before the command is
\* looked at.
Hammered(d, ras2) ==
    [d EXCEPT !.num_param_blocks = 1, !.sig = (IF ras2 THEN "RAS2" ELSE "RASF"),
              !.ras_caps0 = (IF ras2 THEN 1 ELSE 3), !.pb_length = PbSize(ras2)]

Answered(d, v, stat) == [data |-> [d EXCEPT !.set_ras_cap_stat = stat], scrub_vals |-> v]

\* case RASF_PATROL_SCRUB_CMD_GET_PARAMS
GetParams(d, v, ras2) ==
    Answered([d EXCEPT
                 !.out_addr_base = v.base,
                 !.out_addr_size = v.size,
                 !.out_flags = v.flags,
                 !.out_scrub_params =
                     IF ras2
                     THEN v.max_scrub_rate * 65536 + v.min_scrub_rate * 256
                          + v.cur_scrub_rate
                     ELSE @],
             v, RASF_RAS_CAP_STAT_SUCCESS)

\* The range test of the requested scrub rate, and the same test left out.
RateInRange_unchecked(scrub_rate, v) == TRUE

RateInRange(scrub_rate, v) ==
    ~(scrub_rate < v.min_scrub_rate \/ scrub_rate > v.max_scrub_rate)

\* case RASF_PATROL_SCRUB_CMD_START
StartScrub(d, v, ras2) ==
    LET ranged == [v EXCEPT !.base = d.in_addr_base, !.size = d.in_addr_size]
        scrub_rate == (d.in_scrub_params \div 256) % 256
        started == [d EXCEPT !.out_addr_base = d.in_addr_base,
                             !.out_addr_size = d.in_addr_size]
    IN  IF ras2
        THEN LET running == [ranged EXCEPT !.flags = (@ - (@ % 2) + 1)]   \* |= 1
             IN  IF ~RateInRange(scrub_rate, v)
                 THEN Answered(d, running, RASF_RAS_CAP_STAT_INVALID_DATA)
                 ELSE Answered(started,
                               [running EXCEPT
                                   !.cur_scrub_rate = scrub_rate,
                                   !.en_background_patrol_scrub =
                                       d.in_scrub_params % 2],
                               RASF_RAS_CAP_STAT_SUCCESS)
        ELSE Answered(started,
                      [ranged EXCEPT !.flags = (d.in_speed - (d.in_speed % 2) + 1)],
                      RASF_RAS_CAP_STAT_SUCCESS)

\* case RASF_PATROL_SCRUB_CMD_STOP
StopScrub(d, v, ras2) ==
    Answered(d,
             \* x - x % 2 is x & ~0x1
             [v EXCEPT !.flags = IF ras2 THEN (@ - (@ % 2))
                                 ELSE (d.in_speed - (d.in_speed % 2))],
             RASF_RAS_CAP_STAT_SUCCESS)

\* switch (s->data.command): whether the doorbell goes on, and the same
\* with every command going on.
Executes_any_command(d) == TRUE

Executes(d) == d.command = RASF_CMD_EXECUTE

rasf_doorbell(data, v, ras2) ==
    LET d == Hammered(data, ras2)
    IN  IF ~Executes(d)
        THEN [data |-> d, scrub_vals |-> v]
        ELSE IF d.set_ras_caps0 = 0
        THEN Answered(d, v, RASF_RAS_CAP_STAT_SUCCESS)
        ELSE IF d.set_ras_caps0 \notin ScrubCaps(ras2)
        THEN Answered(d, v, RASF_RAS_CAP_STAT_INVALID_DATA)
        ELSE IF d.pb_type # RASF_TYPE_PATROL_SCRUB
        THEN Answered(d, v, RASF_RAS_CAP_STAT_INVALID_DATA)
        ELSE IF d.pb_length # PbSize(ras2)
        THEN Answered(d, v, RASF_RAS_CAP_STAT_INVALID_DATA)
        ELSE CASE d.pb_cmd = RASF_PATROL_SCRUB_CMD_GET_PARAMS -> GetParams(d, v, ras2)
               [] d.pb_cmd = RASF_PATROL_SCRUB_CMD_START -> StartScrub(d, v, ras2)
               [] d.pb_cmd = RASF_PATROL_SCRUB_CMD_STOP -> StopScrub(d, v, ras2)
               [] OTHER -> Answered(d, v, RASF_RAS_CAP_STAT_INVALID_DATA)

\* Whether the doorbell on data d reaches the START or STOP case and is
\* answered SUCCESS: the history the properties speak of.
ReachesCmd(d, ras2, cmd) ==
    /\ d.command = RASF_CMD_EXECUTE
    /\ d.set_ras_caps0 \in ScrubCaps(ras2)
    /\ d.pb_type = RASF_TYPE_PATROL_SCRUB
    /\ d.pb_cmd = cmd

\* The doorbell branch of pcc_write_reg with the interrupt pulsed on the
\* acknowledge offset too.
RingsDoorbell_or_ack(offset) ==
    offset \in {RASF_PCC_DOORBELL_OFFSET, RASF_PCC_INT_ACK_OFFSET}

RingsDoorbell(offset) == offset = RASF_PCC_DOORBELL_OFFSET

pcc_write_reg(offset, value, size) ==
    /\ rasf # <<>>
    /\ IF offset + size <= DataSize(rasf.ras2)
       THEN LET f == FieldAt(offset, size, rasf.ras2)
            IN  /\ f # "none"
                /\ rasf' = [rasf EXCEPT !.data[f] = (IF size < 4 THEN value % (2 ^ (8 * size)) ELSE value),
                                        !.op = "write", !.before = <<>>]
       ELSE IF RingsDoorbell(offset)
       THEN /\ rasf.bells < MaxDoorbells
            /\ LET r == rasf_doorbell(rasf.data, rasf.scrub_vals, rasf.ras2)
                   ok == r.data.set_ras_cap_stat = RASF_RAS_CAP_STAT_SUCCESS
                   d == rasf.data
               IN  rasf' = [rasf EXCEPT
                       !.data = [r.data EXCEPT !.status = 1],
                       !.scrub_vals = r.scrub_vals,
                       !.irq_pulses = @ + 1,
                       !.bells = @ + 1,
                       !.op = "doorbell",
                       !.before = [data |-> rasf.data,
                                   scrub_vals |-> rasf.scrub_vals,
                                   irq_pulses |-> rasf.irq_pulses],
                       !.started =
                           IF ReachesCmd(d, rasf.ras2, RASF_PATROL_SCRUB_CMD_START) /\ ok
                           THEN <<d.in_addr_base, d.in_addr_size>>
                           ELSE @,
                       !.stopped =
                           IF ReachesCmd(d, rasf.ras2, RASF_PATROL_SCRUB_CMD_START) /\ ok
                           THEN FALSE
                           ELSE IF ReachesCmd(d, rasf.ras2, RASF_PATROL_SCRUB_CMD_STOP)
                           THEN TRUE
                           ELSE @]
       ELSE rasf' = [rasf EXCEPT !.op = "write", !.before = <<>>]
    /\ UNCHANGED <<ghes_vars, blocks, hd, mhd>>

\* The writes the guest makes: <<offset, size, value>>.
NextRasf ==
    \E w \in
        ({4} \X {2} \X {0, RASF_CMD_EXECUTE})
        \cup ({6} \X {2} \X {0})
        \cup ({26} \X {1} \X {0, 1, 2})
        \cup ({48} \X {2} \X {0, 1})
        \cup ({52} \X {2} \X {0})
        \cup ({54} \X {2} \X {1, 2, 3})
        \cup ({56} \X {8} \X {16})
        \cup (IF rasf.ras2 THEN {96} \X {4} \X {1281, 6400}
                      ELSE ({90} \X {1} \X {6}) \cup ({88} \X {8} \X {1}))
        \cup ({256, RASF_PCC_INT_ACK_OFFSET, RASF_PCC_DOORBELL_OFFSET} \X {4} \X {1})
       : pcc_write_reg(w[1], w[3], w[2])

SpecRasf == InitRasf /\ [][NextRasf]_vars

\* The same device under fewer guest values, for the properties that look
\* at every write of every step.
PccWrites(ras2) ==
    ({4} \X {2} \X {0, RASF_CMD_EXECUTE})
    \cup ({6} \X {2} \X {0})
    \cup ({26} \X {1} \X {1})
    \cup ({54} \X {2} \X {2, 1})
    \cup ({56} \X {8} \X {16})
    \cup (IF ras2 THEN {96} \X {4} \X {1281} ELSE {88} \X {8} \X {1})
    \cup ({256, RASF_PCC_INT_ACK_OFFSET, RASF_PCC_DOORBELL_OFFSET} \X {4} \X {1})

NextPcc ==
    \E w \in PccWrites(rasf.ras2) : pcc_write_reg(w[1], w[3], w[2])

SpecPcc == InitRasf /\ [][NextPcc]_vars

(***************************************************************************)
(* Vocabulary of the properties: the call the last step made (last), guest *)
(* memory before it (prev) and after it (mem).                             *)
(***************************************************************************)
RecordOps == {"mem", "aer", "gm", "cxl"}
NotifyOps == {"aer", "gm", "cxl"}

IsRecord == last.op \in RecordOps /\ ~last.abort
Src == SourceOf(last.op, last.arg)
OnSource == IsRecord /\ Src \in Sources

AckFlag(m, i) == Load(m, AckRegAddr(i), 8)

SlotImage(m, i) ==
    [a \in {x \in DOMAIN m : /\ SlotAddr(i) <= x
                             /\ x < SlotAddr(i) + ACPI_GHES_MAX_RAW_DATA_LENGTH}
        |-> m[a]]

Failed == IF last.op = "mem" THEN last.ret # 0 ELSE last.ret = 0
Succeeded == IF last.op = "mem" THEN last.ret = 0 ELSE last.ret = 1

SectionOf(op) ==
    CASE op = "mem" -> uefi_cper_mem_sec
      [] op = "aer" -> aer_section_id_le
      [] op = "gm" -> cxl_gm_section_id_le
      [] OTHER -> cxl_section_id_le

PayloadOf(op) ==
    CASE op = "mem" -> ACPI_GHES_MEM_CPER_LENGTH
      [] op = "gm" -> 144
      [] OTHER -> ACPI_GHES_PCIE_CPER_LENGTH

\* The status block at the slot base announces a record of the call's kind.
RecordInSlot(m, i, op) ==
    /\ Load(m, SlotAddr(i), 4) = LE(ACPI_GEBS_UNCORRECTABLE, 4)
    /\ Load(m, SlotAddr(i) + ACPI_GHES_GESB_SIZE, 16) = SectionOf(op)

\* The capacity check of the call passes on the slot as it was.
DeclaredFits ==
    \/ last.op = "mem"
    \/ ACPI_GHES_GESB_SIZE + LEValue(Load(prev, SlotAddr(Src) + 8, 4))
       + ACPI_GHES_DATA_LENGTH + PayloadOf(last.op)
       <= ACPI_GHES_MAX_RAW_DATA_LENGTH

\* The largest record the device can produce fits a slot.
DeviceFits ==
    ACPI_GHES_GESB_SIZE + ACPI_GHES_DATA_LENGTH
    + Len(AppendedCxlCper(Device(dev), CxlErr(1), oob.heap))
    <= ACPI_GHES_MAX_RAW_DATA_LENGTH

\* C1: a record operation called on a source whose ack flag is 0 returns
\* failure, writes nothing into the source's slot, and leaves the flag
\* nonzero.
C1_DropRearmsFlag ==
    (OnSource /\ last.acc # <<>> /\ IsZero(AckFlag(prev, Src)))
    => /\ Failed
       /\ SlotImage(mem, Src) = SlotImage(prev, Src)
       /\ ~IsZero(AckFlag(mem, Src))

\* C2: a record operation called on a source whose ack flag is nonzero, with
\* a nonzero physical address for the memory operation and a record that
\* fits, returns success (true, or 0 for the memory operation), leaves its
\* record in the slot and the flag 0.  Stated for the build that keeps the
\* stack bytes behind the int, the one most favourable to the statement.
C2_ReadyCallRecords ==
    (/\ OnSource
     /\ oob.stack = "residue"
     /\ ~IsZero(AckFlag(prev, Src))
     /\ last.op = "mem" => last.input # 0
     /\ DeclaredFits
     /\ DeviceFits)
    => /\ Succeeded
       /\ RecordInSlot(mem, Src, last.op)
       /\ IsZero(AckFlag(mem, Src))

\* C3: apart from the write of the ack register, every write of a record
\* call starts at the base of its source's slot and is at most 1024 bytes
\* long.
C3_WritesInsideSlot ==
    OnSource =>
        \A j \in 1..Len(last.acc) :
            (last.acc[j].k = "w" /\ last.acc[j].a # AckRegAddr(Src))
            => /\ last.acc[j].a = SlotAddr(Src)
               /\ last.acc[j].n <= ACPI_GHES_MAX_RAW_DATA_LENGTH

\* C4: when the latest attempt on a source was dropped for lack of
\* acknowledgement and the guest has not written the ack register since, the
\* next attempt on that source finds the flag nonzero and is not dropped for
\* lack of acknowledgement.
C4_NoTwoDropsInARow ==
    [][\A i \in Sources :
          (/\ i \in dropped
           /\ steps' = steps + 1
           /\ last'.op \in RecordOps
           /\ last'.acc # <<>>
           /\ SourceOf(last'.op, last'.arg) = i)
          => /\ ~IsZero(AckFlag(mem, i))
             /\ i \notin dropped']_vars

\* C5 as stated: for a device whose records fit their slot, on a build that
\* keeps the stack bytes behind the int, no record call writes into a slot
\* that has been written since the guest last wrote a nonzero value into the
\* source's ack register.
C5_NoOverwriteBeforeGuestAck ==
    (IsRecord /\ DeviceFits /\ oob.stack = "residue") => last.over = {}

\* C5 amended: a record call made with the memory source id or with GPIO or
\* SEA writes into a slot only when the ack register of its own source was
\* nonzero at the start of the call.
C5_WritesOnlyWhenFlagNonzero ==
    (IsRecord /\ SlotsWritten(last.acc) # {})
    => /\ Src \in Sources
       /\ ~IsZero(AckFlag(prev, Src))

\* C5 witness: a call overwrote the record of its own source that no guest
\* ack had released.
C5_Witness ==
    /\ IsRecord
    /\ Src \in last.over
    /\ DeviceFits
    /\ oob.stack = "residue"
    /\ ~IsZero(AckFlag(prev, Src))
\* C6: the slot ranges and ack registers that source resolution produces
\* for SEA and GPIO, and the address entries of the region, keep apart: the
\* two slots are disjoint, the two ack registers are distinct, no ack
\* register and no address entry lies inside a slot, and each address entry
\* holds the slot address resolution produces for its source.
C6_ResolvedRangesDisjoint ==
    LET R == [n \in SupportedNotifies |-> ghes_get_addr(n, oob.rodata)]
        N == ACPI_GHES_MAX_RAW_DATA_LENGTH
    IN  /\ \A n \in SupportedNotifies : R[n].found
        /\ \A n1, n2 \in SupportedNotifies :
            /\ n1 # n2 =>
                /\ ~Overlaps(R[n1].error_block_addr, N, R[n2].error_block_addr, N)
                /\ ~Overlaps(R[n1].read_ack_register_addr, 8,
                             R[n2].read_ack_register_addr, 8)
            /\ ~Overlaps(R[n1].read_ack_register_addr, 8, R[n2].error_block_addr, N)
        /\ \A i \in Sources, n \in SupportedNotifies :
            /\ ~Overlaps(AddrEntryAddr(i), 8, R[n].error_block_addr, N)
            /\ SourceOf("aer", n) = i =>
                   LEValue(Load(mem, AddrEntryAddr(i), 8)) = R[n].error_block_addr

\* C6 witness: a GPIO call has written its record while the slot of the SEA
\* source holds one the guest has not acknowledged.
C6_Witness ==
    /\ last.op \in NotifyOps
    /\ last.arg = ACPI_GHES_NOTIFY_GPIO
    /\ ACPI_HEST_SRC_ID_GPIO \in SlotsWritten(last.acc)
    /\ ACPI_HEST_SRC_ID_SEA \in unacked
    /\ DeviceFits

\* C7: a notify-based record operation called with a notification type other
\* than GPIO and SEA returns failure and neither reads nor writes the region.
C7_OtherNotifyNotFound ==
    (last.op \in NotifyOps /\ last.arg \notin SupportedNotifies)
    => /\ last.ret = 0
       /\ last.acc = <<>>
       /\ mem = prev

\* C8: a notify-based record call that passes the ack gate and fails the
\* capacity check returns failure, leaves the slot as it was and leaves the
\* ack flag 0.  Stated for the build that keeps the stack bytes behind the
\* int.
C8_CapacityFailLeavesFlagZero ==
    (/\ OnSource
     /\ last.op \in NotifyOps
     /\ oob.stack = "residue"
     /\ Len(last.acc) = 3
     /\ ~DeclaredFits)
    => /\ last.ret = 0
       /\ SlotImage(mem, Src) = SlotImage(prev, Src)
       /\ IsZero(AckFlag(mem, Src))

\* C9: the memory operation called with a nonzero physical address P on a
\* source whose ack flag is nonzero returns 0 and leaves in the slot a status
\* block with block_status 1, data_length 152 and severity 0, a data entry
\* with severity 0 announcing 80 bytes, and at offset 92 the payload with
\* validation bits 0x4002 and P at its offset 16.
C9_MemRecordLayout ==
    (/\ OnSource
     /\ last.op = "mem"
     /\ last.input # 0
     /\ ~IsZero(AckFlag(prev, Src)))
    => /\ last.ret = 0
       /\ Load(mem, SlotAddr(Src), 4) = <<1, 0, 0, 0>>
       /\ Load(mem, SlotAddr(Src) + 12, 4) = <<152, 0, 0, 0>>
       /\ Load(mem, SlotAddr(Src) + 16, 4) = <<0, 0, 0, 0>>
       /\ Load(mem, SlotAddr(Src) + 20 + 16, 4) = <<0, 0, 0, 0>>
       /\ Load(mem, SlotAddr(Src) + 20 + 24, 4) = <<80, 0, 0, 0>>
       /\ Load(mem, SlotAddr(Src) + 92, 8) = <<2, 64, 0, 0, 0, 0, 0, 0>>
       /\ LEValue(Load(mem, SlotAddr(Src) + 92 + 16, 8)) = last.input

\* C9 witness: a memory record of a three-byte physical address has been
\* written into the GPIO source's slot.
C9_Witness ==
    /\ last.op = "mem"
    /\ last.arg = ACPI_HEST_SRC_ID_GPIO
    /\ last.input = 1193046
    /\ last.ret = 0
    /\ ACPI_HEST_SRC_ID_GPIO \in SlotsWritten(last.acc)

\* The bytes of slot i that lie past both the end its status block declares
\* and the end of the call's own write.
PastRecord(i) ==
    LET declared == ACPI_GHES_GESB_SIZE + LEValue(Load(mem, SlotAddr(i) + 12, 4))
        written == last.acc[Len(last.acc)].n
        end == IF declared > written THEN declared ELSE written
    IN  {a \in DOMAIN SlotImage(mem, i) : a >= SlotAddr(i) + end}

\* C10: when a slot holds a record, the guest has acknowledged it with 1 and
\* a record call writes the next record into the slot, no nonzero byte of
\* the earlier record remains past the end of the new one.  Stated for a
\* device whose records fit their slot.
C10_SecondRecordOnly ==
    (/\ OnSource
     /\ Src \in SlotsWritten(last.acc)
     /\ Src \notin last.over
     /\ DeviceFits
     /\ Load(prev, SlotAddr(Src), 4) = LE(ACPI_GEBS_UNCORRECTABLE, 4)
     /\ AckFlag(prev, Src) = LE(1, 8))
    => PastRecord(Src) = {}

\* The length of the record the call wrote at the base of its source's slot.
WrittenLength == last.acc[Len(last.acc)].n

\* The call wrote a record into its source's slot.
WroteRecord == OnSource /\ Src \in SlotsWritten(last.acc)

\* C11: in every record written the status block's data_length is 72 plus
\* the number of payload bytes that follow the data entry, the data entry's
\* error_data_length is that number of payload bytes, and the record, whose
\* capacity was checked on that length, is at most 1024 bytes long.
C11_DeclaredLengthsExact ==
    WroteRecord =>
        LET payload == WrittenLength - ACPI_GHES_GESB_SIZE - ACPI_GHES_DATA_LENGTH
        IN  /\ LEValue(Load(mem, SlotAddr(Src) + 12, 4))
               = ACPI_GHES_DATA_LENGTH + payload
            /\ LEValue(Load(mem, SlotAddr(Src) + ACPI_GHES_GESB_SIZE + 24, 4))
               = payload
            /\ WrittenLength <= ACPI_GHES_MAX_RAW_DATA_LENGTH

\* The n bytes at offset off of the payload in the slot of the call's source.
Payload(off, n) ==
    Load(mem, SlotAddr(Src) + ACPI_GHES_GESB_SIZE + ACPI_GHES_DATA_LENGTH + off, n)

\* C12: the PCIe AER payload written is 208 bytes long for every device, and
\* vendor id, device id, function, slot and bus sit at payload offsets 24,
\* 26, 31, 32 and 35 and hold the device's values.
C12_AerPayloadFixed ==
    (WroteRecord /\ last.op = "aer") =>
        /\ WrittenLength = ACPI_GHES_GESB_SIZE + ACPI_GHES_DATA_LENGTH
                           + ACPI_GHES_PCIE_CPER_LENGTH
        /\ LEValue(Payload(24, 2)) = Device(dev).vendor_id
        /\ LEValue(Payload(26, 2)) = Device(dev).device_id
        /\ LEValue(Payload(31, 1)) = Device(dev).devfn % 8
        /\ LEValue(Payload(32, 1)) = Device(dev).devfn \div 8
        /\ LEValue(Payload(35, 1)) = Device(dev).bus

\* C13: in a CXL protocol-error record the bytes between the 116-byte fixed
\* head of the payload and the RAS section (152 bytes for a type-3 device,
\* 536 otherwise) are as many as the cxl_dvsec_len field at payload offset
\* 108 says, and the field is 0 for a device without a CXL DVSEC.
C13_DvsecBytesMatchLength ==
    (WroteRecord /\ last.op = "cxl") =>
        LET len == LEValue(Payload(108, 2))
            ras == IF Device(dev).objtype = "cxl-type3" THEN 152 ELSE 536
        IN  /\ WrittenLength
               = ACPI_GHES_GESB_SIZE + ACPI_GHES_DATA_LENGTH + 116 + len + ras
            /\ (Device(dev).dvsec0_offset = 0 /\ Device(dev).dvsec3_offset = 0)
               => len = 0

\* The blob of build_ghes_error_table for N = 2: 2080 bytes, two zeroed
\* address entries, two ack registers holding 1, two zeroed slots, entry i
\* linked to offset 32 + 1024 * i.
BlobLaidOut ==
    /\ Len(build_ghes_error_table) = 2080
    /\ \A i \in 0..1 :
        /\ SubSeq(build_ghes_error_table, 8 * i + 1, 8 * i + 8)
           = <<0, 0, 0, 0, 0, 0, 0, 0>>
        /\ SubSeq(build_ghes_error_table, 16 + 8 * i + 1, 16 + 8 * i + 8)
           = <<1, 0, 0, 0, 0, 0, 0, 0>>
        /\ LinkedOffset(i) = 32 + 1024 * i
    /\ \A k \in 33..2080 : build_ghes_error_table[k] = 0

\* C14: the region built at start-up is laid out as above; before any call
\* guest memory holds it with each address entry pointing at its slot, and
\* the first record attempt after boot finds the flag of its source nonzero
\* and writes its record.
C14_RegionBuiltReady ==
    /\ BlobLaidOut
    /\ steps = 0 =>
        /\ \A i \in 0..1 :
            /\ LEValue(Load(mem, ghes_addr_le + 8 * i, 8))
               = ghes_addr_le + 32 + 1024 * i
            /\ Load(mem, ghes_addr_le + 16 + 8 * i, 8) = <<1, 0, 0, 0, 0, 0, 0, 0>>
        /\ \A a \in DOMAIN mem : a < ghes_addr_le + 32
    /\ (steps = 1 /\ OnSource /\ (last.op = "mem" => last.input # 0)) =>
        /\ ~IsZero(AckFlag(prev, Src))
        /\ WroteRecord

\* C14 witness: the first call after boot, a PCIe AER record on the GPIO
\* source, has written its record.
C14_Witness ==
    /\ steps = 1
    /\ last.op = "aer"
    /\ Src = ACPI_HEST_SRC_ID_GPIO
    /\ WroteRecord

\* C15: a memory-error record call with a source id at or above
\* ACPI_HEST_SRC_ID_RESERVED ends in the failed assertion: it does not
\* return, and it has read and written nothing of the region.
C15_BadSourceIdAborts ==
    (last.op = "mem" /\ last.arg >= ACPI_HEST_SRC_ID_RESERVED) =>
        /\ last.abort
        /\ last.acc = <<>>
        /\ mem = prev

\* C15 witness: a call with the reserved source id and a nonzero physical
\* address has aborted after the region had taken a record.
C15_Witness ==
    /\ last.op = "mem"
    /\ last.arg = ACPI_HEST_SRC_ID_RESERVED
    /\ last.input # 0
    /\ last.abort
    /\ unacked # {}

\* C16: a notify-based record operation returns true exactly when it wrote a
\* record into the slot of its source during the call.
C16_TrueIffWritten ==
    (IsRecord /\ last.op \in NotifyOps) => (last.ret = 1 <=> WroteRecord)

\* C17: a call that wrote its record wrote the ack register of its source
\* before it first wrote the slot, and the register it wrote holds 0: once
\* the slot holds the new record the flag has been cleared.  Stated for the
\* build that keeps the stack bytes behind the int.
C17_ClearedBeforeRecord ==
    (WroteRecord /\ oob.stack = "residue") =>
        /\ \E j \in 1..Len(last.acc) :
            /\ last.acc[j] = Access("w", AckRegAddr(Src), 8)
            /\ \A k \in 1..j :
                ~(/\ last.acc[k].k = "w"
                  /\ Overlaps(last.acc[k].a, last.acc[k].n, SlotAddr(Src),
                              ACPI_GHES_MAX_RAW_DATA_LENGTH))
        /\ IsZero(AckFlag(mem, Src))



\* C18: the ack check and the clear act as one atomic test-and-clear: when
\* two record calls on the same source, started with the flag READY, run
\* interleaved at the granularity of their individual region reads and
\* writes, at most one of them writes the slot.  (Stated for the build in
\* which the upper half of the register is written back as read, so that
\* the only thing tested is the interleaving.)
C18_AtMostOneWritesSlot ==
    (DOMAIN thr = Callers /\ oob.stack = "residue")
        => ~(thr[1].wrote /\ thr[2].wrote)


\* C19: a record call on one source leaves every other source untouched:
\* the other source's ack register and every byte of the other source's
\* slot are as they were before the call, and no record call changes an
\* error_block_address entry.
C19_OtherSourcesUntouched ==
    /\ OnSource =>
           \A i \in Sources \ {Src} :
               /\ AckFlag(mem, i) = AckFlag(prev, i)
               /\ SlotImage(mem, i) = SlotImage(prev, i)
    /\ IsRecord =>
           \A i \in Sources :
               Load(mem, AddrEntryAddr(i), 8) = Load(prev, AddrEntryAddr(i), 8)


\* Bytes of the written source's slot, by slot offset.
InSlot(off, n) == Load(mem, SlotAddr(Src) + off, n)

\* What follows the envelope is the payload of the call's kind: its first
\* field as the payload encoders lay it out.
PayloadStartsAt92 ==
    CASE last.op = "mem" ->
             InSlot(92, 8) = SubSeq(acpi_ghes_build_append_mem_cper(last.input), 1, 8)
      [] last.op = "aer" ->
             InSlot(92, 8) = LET d == Device(dev)
                             IN  SubSeq(build_append_aer_cper(d), 1, 8)
      [] last.op = "gm" ->
             InSlot(92, 4) = LE(144, 4)
      [] OTHER ->
             InSlot(92, 8) = SubSeq(AppendedCxlCper(Device(dev), CxlErr(last.input),
                                                    oob.heap), 1, 8)

\* C20: every record written starts with a 20-byte status block
\* (block_status 1, raw_data_offset 0, raw_data_length 0, error_severity 0)
\* followed by one 72-byte data entry (the section-type UUID of the call's
\* kind, severity 0, revision 0x300, validation_bits 0, flags 0, all-zero
\* FRU id, 20 zero bytes of FRU text, timestamp 0), so that the payload
\* starts at slot offset 92; the four kinds carry four different UUIDs.
C20_EnvelopeFixed ==
    /\ WroteRecord =>
           /\ InSlot(0, 4) = LE(1, 4)
           /\ IsZero(InSlot(4, 4))
           /\ IsZero(InSlot(8, 4))
           /\ IsZero(InSlot(16, 4))
           /\ InSlot(20, 16) = SectionOf(last.op)
           /\ IsZero(InSlot(36, 4))
           /\ InSlot(40, 2) = LE(768, 2)
           /\ IsZero(InSlot(42, 1))
           /\ IsZero(InSlot(43, 1))
           /\ IsZero(InSlot(48, 16))
           /\ IsZero(InSlot(64, 20))
           /\ IsZero(InSlot(84, 8))
           /\ WrittenLength > 92
           /\ PayloadStartsAt92
    /\ Cardinality({SectionOf(op) : op \in RecordOps}) = 4

\* C20 witness: a CXL general-media record has been written to the slot of
\* source 1.
C20_Witness == WroteRecord /\ last.op = "gm" /\ Src = 1


\* C21: the agent-type byte of a CXL protocol-error record is 2 for a CXL
\* memory device, 7 for an upstream switch port, 6 for a downstream switch
\* port, 5 for a root port and 0xFF for any other device, and bit 0 of the
\* validity bitmap is set exactly when the agent type is not 0xFF.
C21_AgentTypeByRole ==
    (WroteRecord /\ last.op = "cxl") =>
        LET role == Device(dev).objtype
            type == Payload(8, 1)[1]
            valid == Payload(0, 1)[1] % 2
        IN  /\ role = "cxl-type3" => type = 2
            /\ role = "cxl-upstream" => type = 7
            /\ role = "cxl-downstream" => type = 6
            /\ role = "cxl-rp" => type = 5
            /\ role \notin {"cxl-type3", "cxl-upstream", "cxl-downstream",
                            "cxl-rp"} => type = 255
            /\ valid = 1 <=> type # 255

\* C21 witness: a protocol-error record of an upstream switch port has been
\* written.
C21_Witness == WroteRecord /\ last.op = "cxl" /\ Device(dev).objtype = "cxl-upstream"


\* The GHESv2 entry the firmware tables publish for a notification type.
HestEntry(notify) == CHOOSE h \in acpi_build_hest : h.notify = notify

\* C22: for each supported source the addresses computed by source
\* resolution agree with the published layout: the slot address is the
\* value linked into the source's error_block_address entry (base + 2*N*8 +
\* index*1024), the ack address is the read-ack register the HEST advertises
\* for the source (base + (N + index)*8), and the notify-to-index map sends
\* SEA and GPIO to the index of their source id; so the memory operation and
\* the notify-based operations reach the same slot and ack register for the
\* same source.
C22_ResolutionMatchesLayout ==
    /\ \A notify \in SupportedNotifies :
           LET a == ghes_get_addr(notify, oob.rodata)
               h == HestEntry(notify)
               index == SourceIndex(notify, oob.rodata)
           IN  /\ a.found
               /\ index = h.source_id
               /\ a.error_block_addr = LEValue(Load(mem, h.error_status_address, 8))
               /\ a.error_block_addr
                    = ghes_addr_le + 2 * ACPI_GHES_ERROR_SOURCE_COUNT * 8
                      + index * ACPI_GHES_MAX_RAW_DATA_LENGTH
               /\ a.read_ack_register_addr = h.read_ack_register
               /\ a.read_ack_register_addr
                    = ghes_addr_le + (ACPI_GHES_ERROR_SOURCE_COUNT + index) * 8
    /\ OnSource =>
           LET h == build_ghes_v2(Src)
               slot == LEValue(Load(prev, h.error_status_address, 8))
           IN  \A k \in 1..Len(last.acc) :
                   LET x == last.acc[k]
                   IN  \/ x.a = h.read_ack_register /\ x.n = 8
                       \/ x.k = "r" /\ x.a = h.error_status_address /\ x.n = 8
                       \/ x.k = "r" /\ x.a = slot + 8 /\ x.n = 4
                       \/ x.k = "w" /\ x.a = slot

\* C22 witness: a notify-based call has written its record over the memory
\* record that the memory operation had put in the same source's slot.
C22_Witness ==
    /\ WroteRecord
    /\ last.op \in NotifyOps
    /\ RecordInSlot(prev, Src, "mem")


\* C23: a source is READY exactly when its 64-bit read_ack_register is
\* nonzero: whatever 64-bit value the register held when the call started,
\* a record operation whose input is valid and whose record fits writes the
\* slot iff that value was not 0, also when its low 32 bits are all zero.
\* (Stated for the build in which the upper half of the register is written
\* back as read.)
C23_ReadyIffNonzero64 ==
    (/\ OnSource
     /\ oob.stack = "residue"
     /\ DeclaredFits
     /\ last.op = "mem" => last.input # 0)
        => (Src \in SlotsWritten(last.acc) <=> ~IsZero(AckFlag(prev, Src)))


\* The error_block_address entry of source i as the call found it.
EntryRead(i) == LEValue(Load(prev, AddrEntryAddr(i), 8))

\* C24: a memory-error record call with physical address 0, or on a source
\* whose error_block_address entry reads 0, returns failure and changes
\* neither the source's ack register nor any byte of any slot.
C24_NoAddressNoEffect ==
    (/\ OnSource
     /\ last.op = "mem"
     /\ last.input = 0 \/ EntryRead(Src) = 0)
        => /\ last.ret # 0
           /\ AckFlag(mem, Src) = AckFlag(prev, Src)
           /\ \A i \in Sources : SlotImage(mem, i) = SlotImage(prev, i)

\* C24 witness: a memory-error call with a nonzero physical address has run
\* on a source whose entry reads 0 and whose ack register was nonzero.
C24_Witness ==
    /\ OnSource
    /\ last.op = "mem"
    /\ last.input # 0
    /\ EntryRead(Src) = 0
    /\ ~IsZero(AckFlag(prev, Src))


\* C25: acpi_ghes_record_errors returns 0 when it wrote a memory-error
\* record and -1 on every failure path that returns normally.
C25_MemReturnsZeroOrMinusOne ==
    (IsRecord /\ last.op = "mem") =>
        IF SlotsWritten(last.acc) # {} THEN last.ret = 0 ELSE last.ret = -1


\* Head h takes a step of the given kind: it leaves the position pc.
Leaves(h, pc) == hd[h].pc = pc /\ hd'[h] # [hd[h] EXCEPT !.conc = hd'[h].conc]

\* No ownership byte has the bits of two heads.
OneOwnerPerBlock ==
    \A n \in DOMAIN blocks : blocks[n] = 0 \/ \E h \in Heads : blocks[n] = HeadBit(h)

\* In a claim, release or roll-back step, a head's bit appears on a block
\* only through that head's compare-and-swap on a byte that was 0.
BitSetOnlyByClaim ==
    \A n \in DOMAIN blocks, h \in Heads :
        (/\ ~HasBit(blocks[n], h)
         /\ HasBit(blocks'[n], h)
         /\ ~\E q \in Heads : Leaves(q, "rst_write"))
            => blocks[n] = 0 /\ Leaves(h, "set_cas")

\* C26: under any interleaving of block-claim, block-release and roll-back
\* steps issued by different heads on the shared block array, no block's
\* ownership byte ever has the bits of two different heads set, and a head's
\* bit is set on a block only by a claim that found the byte equal to 0 at
\* that instant.
C26_ExclusiveOwnership == []OneOwnerPerBlock /\ [][BitSetOnlyByClaim]_vars

\* C26 witness: a claim of one head has just failed on a block that another
\* head owns.
C26_Witness ==
    \E h \in Heads :
        /\ DOMAIN hd = Heads
        /\ hd[h].pc = "set_rb"
        /\ \E q \in Heads \ {h} :
               blocks[block_start(hd[h].arg[hd[h].k]) + hd[h].i] = HeadBit(q)


\* The blocks of extent e.
BlocksOf(e) == block_start(e) .. (block_start(e) + block_count(e) - 1)

\* C27: claiming a block range is all-or-nothing: with no other head acting
\* meanwhile, cxl_mhsld_state_set either claims every block of
\* [start, start+count) for the calling head and returns true, or returns
\* false and leaves every block's ownership byte as it was before the call,
\* the block on which the claim failed and the blocks the calling head
\* already owned included.
C27_ClaimAllOrNothing ==
    \A h \in DOMAIN hd :
        (hd[h].pc = "set_done" /\ hd[h].k = 1 /\ ~hd[h].conc) =>
            IF hd[h].set_ret = 1
            THEN \A n \in BlocksOf(hd[h].arg[1]) : blocks[n] = HeadBit(h)
            ELSE blocks = hd[h].before


\* The blocks of the extents of a record list.
BlocksOfList(records) == UNION {BlocksOf(records[j]) : j \in 1..Len(records)}

\* C28: reserving a list of extents is all-or-nothing: if the claim of any
\* extent of the list fails, cxl_mhsld_reserve_extents_in_region returns
\* false and every block claimed for an earlier extent of the call is
\* released, so that the block array equals its value before the call; if
\* all claims succeed it returns true with every block of every extent owned
\* by the calling head.  (Stated with no other head acting meanwhile and for
\* a head that owned none of the list's blocks before the call.)
C28_ReserveAllOrNothing ==
    \A h \in DOMAIN hd :
        (/\ hd[h].op = "reserve"
         /\ hd[h].pc = "idle"
         /\ ~hd[h].conc
         /\ \A n \in BlocksOfList(hd[h].arg) : ~HasBit(hd[h].before[n], h)) =>
            IF hd[h].ret = 1
            THEN \A n \in BlocksOfList(hd[h].arg) : blocks[n] = HeadBit(h)
            ELSE blocks = hd[h].before


\* C29: a device reset of head h releases exactly h's capacity: when it has
\* completed no block has bit h set, and the bits of every other head on
\* every block are as those heads left them, also when other heads claim or
\* release blocks while the reset scans.
C29_ResetReleasesOwnOnly ==
    \A h \in DOMAIN hd :
        (hd[h].op = "reset" /\ hd[h].pc = "idle") =>
            \A n \in 0..(NrBlocks - 1) :
                /\ ~HasBit(blocks[n], h)
                /\ \A q \in Heads \ {h} : HasBit(blocks[n], q) <=> n \in hd[q].owned


\* cxl_mhsld_test_extent_block_backed of head h returns in this step.
TestReturns(h) == hd[h].pc = "tst" /\ hd'[h].pc = "idle"

\* The answer of the test agrees with the block array and with what the
\* head's own reserves, releases and resets have left it.
TestAnswerExact(h) ==
    LET e == hd[h].arg[1]
    IN  /\ hd'[h].ret = 1 <=> \A n \in BlocksOf(e) : blocks'[n] = HeadBit(h)
        /\ hd'[h].ret = 1 <=> BlocksOf(e) \subseteq hd'[h].owned

\* C30: for head h, cxl_mhsld_test_extent_block_backed returns true for an
\* extent exactly when every block of the extent is owned by h alone: true
\* after a successful reserve of the extent by h, false after h has released
\* the extent or reset, false whenever a block of the extent is free or
\* owned by another head.
C30_TestExact == [][\A h \in Heads : TestReturns(h) => TestAnswerExact(h)]_vars

Min(a, b) == IF a < b THEN a ELSE b

GetInfoRan == mhd # <<>> /\ mhd.op = "get_info"

\* C31: Get Multi-Headed Info returns INVALID_INPUT with no output when
\* start_ld >= nr_lds; otherwise it succeeds with ldmap_len = min(requested
\* ldmap_len, nr_lds - start_ld), ldmap[i] equal to the shared map entry
\* start_ld + i for each i below ldmap_len, and an output length of the
\* fixed header plus ldmap_len; it never reads a map entry at or beyond
\* nr_lds.
C31_GetInfoWindow ==
    GetInfoRan =>
        /\ mhd.start_ld >= mhd.nr_lds =>
               /\ mhd.ret = "CXL_MBOX_INVALID_INPUT"
               /\ mhd.out = mhd.out_before
               /\ mhd.len_out = mhd.len_before
        /\ mhd.start_ld < mhd.nr_lds =>
               /\ mhd.ret = "CXL_MBOX_SUCCESS"
               /\ mhd.out.ldmap_len =
                      Min(mhd.ldmap_len, mhd.nr_lds - mhd.start_ld)
               /\ \A i \in 0 .. (mhd.out.ldmap_len - 1) :
                      mhd.out.ldmap[i] = mhd.ldmap[mhd.start_ld + i]
               /\ mhd.len_out = MHDGetInfoOutputSize + mhd.out.ldmap_len
        /\ \A n \in mhd.reads : n < mhd.nr_lds

\* A command that starts at a nonzero entry and is cut short by nr_lds.
C31_Witness ==
    /\ GetInfoRan
    /\ mhd.ret = "CXL_MBOX_SUCCESS"
    /\ mhd.start_ld = 1
    /\ mhd.ldmap_len = 255
    /\ mhd.out.ldmap_len = MHSLD_HEADS - 1
    /\ mhd.out.ldmap[0] = 1

\* The last guest write rang the doorbell.
DoorbellRan == rasf # <<>> /\ rasf.op = "doorbell"

\* What a write that is not the doorbell may change: the one field of the
\* channel data it lands on.
OnlyFieldWritten(offset, size) ==
    LET f == FieldAt(offset, size, rasf.ras2)
    IN  /\ rasf'.irq_pulses = rasf.irq_pulses
        /\ rasf'.scrub_vals = rasf.scrub_vals
        /\ rasf'.op # "doorbell"
        /\ \A g \in DOMAIN rasf.data :
               (offset + size > DataSize(rasf.ras2) \/ g # f) =>
                   rasf'.data[g] = rasf.data[g]

DoorbellProcessed ==
    LET r == rasf_doorbell(rasf.data, rasf.scrub_vals, rasf.ras2)
    IN  /\ rasf'.op = "doorbell"
        /\ rasf'.data = [r.data EXCEPT !.status = 1]
        /\ rasf'.scrub_vals = r.scrub_vals
        /\ rasf'.irq_pulses = rasf.irq_pulses + 1

\* C32: a guest write to the PCC doorbell offset (0x800) processes the
\* command found in the shared channel data, then sets the channel status
\* field to 1 and pulses the interrupt exactly once; a write to any other
\* offset (the data area, the interrupt-ack offset 0x808, or anywhere else)
\* never runs a command, never sets status as a side effect and never
\* pulses the interrupt.
C32_DoorbellOnly ==
    [][\A w \in PccWrites(rasf.ras2) :
           pcc_write_reg(w[1], w[3], w[2]) =>
               IF w[1] = RASF_PCC_DOORBELL_OFFSET
               THEN DoorbellProcessed
               ELSE OnlyFieldWritten(w[1], w[2])]_vars

\* A doorbell rung after the guest had cleared status.
C32_Witness ==
    /\ DoorbellRan
    /\ rasf.before.data.status = 0
    /\ rasf.data.status = 1
    /\ rasf.irq_pulses = rasf.before.irq_pulses + 1

\* The doorbell found an EXECUTE command that selects a capability, so it
\* wrote set_ras_cap_stat itself.
Answers(stat) ==
    /\ DoorbellRan
    /\ rasf.before.data.command = RASF_CMD_EXECUTE
    /\ rasf.before.data.set_ras_caps0 # 0
    /\ rasf.data.set_ras_cap_stat = stat

ScrubStateKept == rasf.scrub_vals = rasf.before.scrub_vals

\* C33: whenever a doorbell is answered with status INVALID_DATA, the scrub
\* state (base, size, flags and, in the RAS2 build, current scrub rate and
\* background-scrub enable) is exactly what it was before the doorbell.
C33_InvalidDataNoEffect ==
    Answers(RASF_RAS_CAP_STAT_INVALID_DATA) => ScrubStateKept

\* The last doorbell was a GET_PARAMS that was answered SUCCESS.
GotParams ==
    /\ Answers(RASF_RAS_CAP_STAT_SUCCESS)
    /\ ReachesCmd(rasf.before.data, rasf.ras2, RASF_PATROL_SCRUB_CMD_GET_PARAMS)

RunningBit(flags) == flags % 2

\* C34: after a successful patrol-scrub START with input range (b, s), a
\* GET_PARAMS doorbell returns out_addr_base = b, out_addr_size = s and
\* flags with the running bit (bit 0) set; after a STOP doorbell, GET_PARAMS
\* returns flags with bit 0 clear and the base and size of the last START;
\* before any START it returns the realize-time defaults.  rasf.started is
\* the range of the last START answered SUCCESS, rasf.stopped whether a
\* STOP came after it.
C34_GetParamsFollowsHistory ==
    GotParams =>
        /\ rasf.started # <<>> =>
               /\ rasf.data.out_addr_base = rasf.started[1]
               /\ rasf.data.out_addr_size = rasf.started[2]
        /\ rasf.started = <<>> =>
               /\ rasf.data.out_addr_base = RealizedScrubVals(rasf.ras2).base
               /\ rasf.data.out_addr_size = RealizedScrubVals(rasf.ras2).size
        /\ (rasf.started # <<>> /\ ~rasf.stopped) =>
               RunningBit(rasf.data.out_flags) = 1
        /\ rasf.stopped => RunningBit(rasf.data.out_flags) = 0
        /\ (rasf.started = <<>> /\ ~rasf.stopped) =>
               rasf.data.out_flags = RealizedScrubVals(rasf.ras2).flags

OutputFields == {"out_addr_base", "out_addr_size", "out_flags", "out_scrub_params"}

\* C35: a doorbell whose command field is not EXECUTE changes neither
\* set_ras_cap_stat nor the scrub state; an EXECUTE doorbell with
\* set_ras_caps[0] == 0 (capability query) sets set_ras_cap_stat to SUCCESS
\* and leaves the scrub state and the parameter-block output fields
\* unchanged.
C35_QueryAndNonExecuteFrame ==
    DoorbellRan =>
        /\ rasf.before.data.command # RASF_CMD_EXECUTE =>
               /\ rasf.data.set_ras_cap_stat = rasf.before.data.set_ras_cap_stat
               /\ ScrubStateKept
        /\ (rasf.before.data.command = RASF_CMD_EXECUTE
            /\ rasf.before.data.set_ras_caps0 = 0) =>
               /\ rasf.data.set_ras_cap_stat = RASF_RAS_CAP_STAT_SUCCESS
               /\ ScrubStateKept
               /\ \A f \in OutputFields : rasf.data[f] = rasf.before.data[f]

\* A doorbell with another command rung while the last answer,
\* INVALID_DATA, and the output of an earlier GET_PARAMS are in the data.
C35_Witness ==
    /\ DoorbellRan
    /\ rasf.before.data.command # RASF_CMD_EXECUTE
    /\ rasf.before.data.set_ras_caps0 = 0
    /\ rasf.before.data.set_ras_cap_stat = RASF_RAS_CAP_STAT_INVALID_DATA
    /\ rasf.before.data.out_addr_base # 0

\* C36: an EXECUTE doorbell that selects the scrub capability but whose
\* parameter block carries a length field different from the
\* parameter-block size is answered with INVALID_DATA and has no effect on
\* the scrub state.
C36_WrongLengthRejected ==
    (/\ DoorbellRan
     /\ rasf.before.data.command = RASF_CMD_EXECUTE
     /\ rasf.before.data.set_ras_caps0 \in ScrubCaps(rasf.ras2)
     /\ rasf.before.data.pb_length # PbSize(rasf.ras2))
    => (/\ rasf.data.set_ras_cap_stat = RASF_RAS_CAP_STAT_INVALID_DATA
        /\ ScrubStateKept)

\* C37: in the RAS2 build, after any sequence of guest register writes and
\* doorbells, cur_scrub_rate lies within [min_scrub_rate, max_scrub_rate]; a
\* START whose requested rate is outside that range is answered
\* INVALID_DATA and does not change cur_scrub_rate.
C37_ScrubRateInRange ==
    (rasf # <<>> /\ rasf.ras2) =>
        /\ rasf.scrub_vals.cur_scrub_rate >= rasf.scrub_vals.min_scrub_rate
        /\ rasf.scrub_vals.cur_scrub_rate <= rasf.scrub_vals.max_scrub_rate
        /\ LET d == rasf.before.data
               rate == (d.in_scrub_params \div 256) % 256
           IN  (/\ DoorbellRan
                /\ ReachesCmd(d, TRUE, RASF_PATROL_SCRUB_CMD_START)
                /\ (rate < rasf.before.scrub_vals.min_scrub_rate
                    \/ rate > rasf.before.scrub_vals.max_scrub_rate))
               => /\ rasf.data.set_ras_cap_stat = RASF_RAS_CAP_STAT_INVALID_DATA
                  /\ rasf.scrub_vals.cur_scrub_rate =
                         rasf.before.scrub_vals.cur_scrub_rate

\* A START asking for rate 25 rung after a START had set the rate to 5.
C37_Witness ==
    /\ DoorbellRan
    /\ rasf.ras2
    /\ ReachesCmd(rasf.before.data, TRUE, RASF_PATROL_SCRUB_CMD_START)
    /\ rasf.before.data.in_scrub_params = 6400
    /\ rasf.before.scrub_vals.cur_scrub_rate = 5
    /\ rasf.scrub_vals.cur_scrub_rate = 5

====
